---- MODULE Spec2Model ----
(***************************************************************************)
(* Model of the MAKORA broker integration and risk-control layer:          *)
(*   - RateLimiter (providers/etoro/client.ts)                             *)
(*   - the TTL caches with in-flight deduplication of the trading and the  *)
(*     market-data providers                                               *)
(*   - EtoroTradingProvider.createOrder                                    *)
(*   - the risk state, the order-approval workflow and the cron jobs       *)
(* Each component has its own specification over the shared variables.     *)
(***************************************************************************)
EXTENDS Integers, Sequences, FiniteSets, TLC

VARIABLES
  now,          \* Date.now(), in ms
  \* ---- RateLimiter
  timestamps,   \* RateLimiter.timestamps
  rlpc,         \* position of each acquire() caller: "idle" | "sleeping"
  wakeAt,       \* the time each sleeping caller's setTimeout fires
  \* ---- TTL caches of EtoroTradingProvider and EtoroMarketDataProvider
  portfolioCache,    \* EtoroTradingProvider.portfolioCache
  portfolioPending,  \* EtoroTradingProvider.portfolioPending (0 = null, else the promise)
  ratesCache,        \* EtoroTradingProvider.ratesCache
  ratesPending,      \* EtoroTradingProvider.ratesPending
  mdRatesCache,      \* EtoroMarketDataProvider.ratesCache
  mdRatesPending,    \* EtoroMarketDataProvider.ratesPending
  inflight,          \* the requests sent to the broker and not yet answered
  nextFetch,         \* identity of the next promise created
  cpc,               \* position of each cache caller
  awaiting,          \* the promise each suspended caller awaits
  lastReturn,        \* what the last step returned, and to which callers
  \* ---- EtoroTradingProvider.createOrder and EtoroInstrumentCache
  ocall,             \* the createOrder call in progress: position and locals
  orderReturn,       \* the createOrder call that returned in the last step
  symbolToId,        \* EtoroInstrumentCache.symbolToId
  idToMeta,          \* EtoroInstrumentCache.idToMeta
  \* ---- EtoroTradingProvider.closePosition, getAccount, getPositions
  tcall,             \* the call in progress: operation, position and locals
  treturn,           \* the call that returned in the last step
  allInstrumentsFetchedAt,  \* EtoroInstrumentCache.allInstrumentsFetchedAt
  \* ---- risk state, order approvals, cron jobs
  killSwitchActive,  \* risk_state.kill_switch_active
  dailyLossUsd,      \* risk_state.daily_loss_usd
  dailyLossResetAt,  \* risk_state.daily_loss_reset_at
  approval,          \* the order_approvals row of one approval token
  ppc,               \* position of each presenter of that token
  brokerOrders,      \* orders submitted to the broker for that token
  riskReturn,        \* what the last step returned to a presenter
  cronJob,           \* the cron job suspended before its approvals cleanup
  \* ---- EtoroClient.request
  rqpc,              \* position of each request() caller: "idle" | "sleeping" | "fetching"
  rqWake,            \* the time a caller sleeping in acquire() wakes up
  requestReturn,     \* the request() call that returned in the last step
  \* ---- createEtoroProviders
  cachedProviders,   \* the module variable cachedProviders: <<>> (null) or <<[key, providers]>>
  instances,         \* the provider sets created so far, each by its client's config
  providersReturn,   \* the createEtoroProviders call that returned in the last step
  \* ---- EtoroInstrumentCache batch resolution, EtoroMarketDataProvider.getQuotes
  bcall,             \* the resolveInstrumentIds / getQuotes call in progress
  breturn,           \* the last such call that returned
  metadataPending,   \* EtoroInstrumentCache.metadataPending (0 = null, 1 = the promise)
  metaInflight,      \* directory requests sent to the broker and not yet answered
  mcall,             \* each resolveMetadata caller: position and ids asked for
  mreturn,           \* the resolveMetadata call that returned in the last step
  \* ---- the event-ingestion cron job
  marketOpen,        \* whether the market is open (the world, not the program)
  ingest,            \* the runEventIngestion run in progress, or how the last one ended
  rawEvents,         \* the source ids of the rows of raw_events
  \* ---- EtoroTradingProvider.cancelAllOrders
  acall,             \* the cancelAllOrders call in progress: position and locals
  areturn            \* the cancelAllOrders call that returned in the last step

rlVars == <<timestamps, rlpc, wakeAt>>
cacheVars == <<portfolioCache, portfolioPending, ratesCache, ratesPending,
               mdRatesCache, mdRatesPending, inflight, nextFetch, cpc, awaiting,
               lastReturn>>
orderVars == <<ocall, orderReturn, symbolToId, idToMeta>>
approvalVars == <<dailyLossUsd, dailyLossResetAt, approval, ppc, brokerOrders, riskReturn,
                  cronJob>>
riskVars == <<killSwitchActive, approvalVars>>
tradingVars == <<tcall, treturn, allInstrumentsFetchedAt>>
clientVars == <<rqpc, rqWake, requestReturn>>
providerVars == <<cachedProviders, instances, providersReturn>>
batchVars == <<bcall, breturn>>
metaVars == <<mcall, mreturn>>
directoryVars == <<metadataPending, metaInflight>>
instrumentVars == <<batchVars, metaVars, directoryVars>>
ingestVars == <<marketOpen, ingest, rawEvents>>
cancelAllVars == <<acall, areturn>>
vars == <<now, rlVars, cacheVars, orderVars, tradingVars, riskVars, clientVars, providerVars,
          instrumentVars, ingestVars, cancelAllVars>>
\* what the actions of one component leave alone
exceptRL == <<cacheVars, orderVars, tradingVars, riskVars, clientVars, providerVars, instrumentVars, ingestVars, cancelAllVars>>
exceptCache == <<rlVars, symbolToId, idToMeta, riskVars, clientVars, providerVars, instrumentVars, ingestVars, cancelAllVars>>
exceptMdRates == <<rlVars, symbolToId, idToMeta, riskVars, clientVars, providerVars, metaVars,
                   directoryVars, ingestVars, cancelAllVars>>
exceptTrading == <<rlVars, mdRatesCache, mdRatesPending, cpc, awaiting, ocall, riskVars,
                   clientVars, providerVars, instrumentVars, ingestVars, cancelAllVars>>
exceptOrder == <<rlVars, portfolioCache, portfolioPending, mdRatesCache, mdRatesPending,
                 cpc, awaiting, tradingVars, approvalVars, clientVars, providerVars, instrumentVars, ingestVars, cancelAllVars>>
exceptRisk == <<rlVars, cacheVars, orderVars, tradingVars, killSwitchActive, clientVars,
                providerVars, instrumentVars, ingestVars, cancelAllVars>>
exceptRequest == <<rlpc, wakeAt, cacheVars, orderVars, tradingVars, riskVars, providerVars, instrumentVars, ingestVars, cancelAllVars>>
exceptBatch == <<rlVars, portfolioCache, portfolioPending, ratesCache, ratesPending, ocall,
                 orderReturn, tcall, treturn, riskVars, clientVars, providerVars, ingestVars, cancelAllVars>>
exceptMeta == <<rlVars, cacheVars, ocall, orderReturn, symbolToId, tcall, treturn, riskVars,
                clientVars, providerVars, batchVars, ingestVars, cancelAllVars>>
exceptIngest == <<rlVars, cacheVars, orderVars, tradingVars, riskVars, clientVars, providerVars,
                  instrumentVars, cancelAllVars>>
exceptCancelAll == <<rlVars, cacheVars, ocall, orderReturn, symbolToId, tcall, treturn, riskVars,
                     clientVars, providerVars, instrumentVars, ingestVars>>
exceptProviders == <<rlVars, cacheVars, orderVars, tradingVars, riskVars, clientVars, instrumentVars, ingestVars, cancelAllVars>>

(***************************************************************************)
(* RateLimiter                                                             *)
(***************************************************************************)
windowMs == 60000
safetyMarginMs == 50
\* config.maxRequestsPerMinute (default 55), kept small here
maxRequests == 2
NumRLCallers == 3
RLMaxTicks == 5

RLCallers == 1..NumRLCallers
RLTick == windowMs \div 2
RLMaxTime == RLMaxTicks * RLTick

\* prune(): drop timestamps from the front while they are older than the window
RECURSIVE prune(_, _)
prune(ts, t) ==
  IF Len(ts) > 0 /\ ts[1] < t - windowMs THEN prune(Tail(ts), t) ELSE ts

\* get pending(): prune, then the number of timestamps kept
pending(ts, t) == Len(prune(ts, t))

\* what acquire() does after its sleep: prune again, then push
\* (bug variant: the timestamp is not pushed)
AfterSleepNoPush(ts, t) == prune(ts, t)
AfterSleep(ts, t) == Append(prune(ts, t), t)

\* waitMs of acquire(), for the oldest timestamp of a full window
\* (bug variant: without the safety margin)
waitForNoMargin(oldest, t) == oldest + windowMs - t
waitFor(oldest, t) == oldest + windowMs - t + safetyMarginMs

RLInit ==
  /\ timestamps = <<>>
  /\ rlpc = [c \in RLCallers |-> "idle"]
  /\ wakeAt = [c \in RLCallers |-> 0]

\* acquire() up to its first suspension point (or to its end when no sleep)
AcquireStart(c) ==
  /\ rlpc[c] = "idle"
  /\ LET ts1 == prune(timestamps, now) IN
       IF Len(ts1) >= maxRequests
       THEN LET oldest == ts1[1]
                waitMs == waitFor(oldest, now)
            IN IF waitMs > 0
               THEN /\ timestamps' = ts1
                    /\ rlpc' = [rlpc EXCEPT ![c] = "sleeping"]
                    /\ wakeAt' = [wakeAt EXCEPT ![c] = now + waitMs]
               ELSE /\ timestamps' = Append(ts1, now)
                    /\ UNCHANGED <<rlpc, wakeAt>>
       ELSE /\ timestamps' = Append(ts1, now)
            /\ UNCHANGED <<rlpc, wakeAt>>
  /\ UNCHANGED <<now, exceptRL>>

\* the setTimeout callback resumes acquire(): prune, then push unconditionally
AcquireWake(c) ==
  /\ rlpc[c] = "sleeping"
  /\ now >= wakeAt[c]
  /\ timestamps' = AfterSleep(timestamps, now)
  /\ rlpc' = [rlpc EXCEPT ![c] = "idle"]
  /\ wakeAt' = [wakeAt EXCEPT ![c] = 0]
  /\ UNCHANGED <<now, exceptRL>>

\* time passes: by one tick, or up to the next timer
RLAdvance ==
  /\ \E t \in {now + RLTick} \cup {wakeAt[c] : c \in {d \in RLCallers : rlpc[d] = "sleeping"}} :
       /\ t > now
       /\ t <= RLMaxTime
       /\ now' = t
  /\ UNCHANGED <<rlVars, exceptRL>>

RLNext ==
  \/ \E c \in RLCallers : AcquireStart(c)
  \/ \E c \in RLCallers : AcquireWake(c)
  \/ RLAdvance


(***************************************************************************)
(* TTL caches with in-flight deduplication                                 *)
(*   EtoroTradingProvider.getCachedPortfolio / getCachedRates              *)
(*   EtoroMarketDataProvider.getAllRates                                   *)
(***************************************************************************)
PORTFOLIO_CACHE_TTL_MS == 15000
RATES_CACHE_TTL_MS == 15000
MD_RATES_CACHE_TTL_MS == 15000
NumCacheCallers == 2
MaxFetches == 2
MaxBrokerData == 2
CacheMaxTicks == 2

CacheCallers == 1..NumCacheCallers
\* the versions of the data the broker may answer with
BrokerData == 1..MaxBrokerData
CacheTick == PORTFOLIO_CACHE_TTL_MS
CacheMaxTime == CacheMaxTicks * CacheTick

\* a cache field that is null
NoEntry == [present |-> FALSE, data |-> 0, expiresAt |-> 0]
\* { data, expiresAt: Date.now() + ttl }
Entry(data, t, ttl) == [present |-> TRUE, data |-> data, expiresAt |-> t + ttl]
\* this.cache && now < this.cache.expiresAt
Fresh(e, t) == e.present /\ t < e.expiresAt
\* the rateMap fetchAllRates returns when the request failed: new Map()
EmptyRateMap == 0
\* a step that returns nothing to any caller
NoReturn == [to |-> {}, kind |-> "none", src |-> "none", outcome |-> "none", value |-> 0]
Return(to, kind, src, outcome, value) ==
  [to |-> to, kind |-> kind, src |-> src, outcome |-> outcome, value |-> value]

\* the three-way decision every cached getter starts with: a fresh entry is
\* returned, else a pending promise is shared, else a fetch is started
\* (bug variant: the pending promise is not consulted)
CachePathNoJoin(e, pend, t) == IF Fresh(e, t) THEN "cache" ELSE "fetch"
\* (bug variant: the fresh entry is not consulted)
CachePathNoFresh(e, pend, t) == IF pend # 0 THEN "join" ELSE "fetch"
CachePath(e, pend, t) ==
  IF Fresh(e, t) THEN "cache" ELSE IF pend # 0 THEN "join" ELSE "fetch"

\* the .then handler of getCachedPortfolio / getAllRates: cache and clear pending
OnFetched(data, t, ttl) == [cache |-> Entry(data, t, ttl), pending |-> 0]
\* (bug variant: the rejected promise stays in the pending field)
OnFetchFailedKeepsPending(e, pend) == [cache |-> e, pending |-> pend]
\* the .catch handler: clear pending, keep the cache, rethrow
OnFetchFailed(e, pend) == [cache |-> e, pending |-> 0]

\* fetchAllRates(): the rate map of the response; a failed request is caught
\* and the empty map is returned
fetchAllRates(ok, data) == IF ok THEN data ELSE EmptyRateMap

(***************************************************************************)
(* Strings, as sequences of one-character strings                          *)
(***************************************************************************)
Range(f) == {f[i] : i \in DOMAIN f}

\* String.prototype.toUpperCase, one character
UpperChar(ch) ==
  CASE ch = "a" -> "A" [] ch = "b" -> "B" [] ch = "c" -> "C" [] ch = "d" -> "D"
    [] ch = "l" -> "L" [] ch = "p" -> "P" [] ch = "s" -> "S" [] ch = "t" -> "T"
    [] ch = "u" -> "U" [] ch = "x" -> "X" [] OTHER -> ch
toUpperCase(str) == [i \in 1..Len(str) |-> UpperChar(str[i])]

\* String.prototype.trim
RECURSIVE trimStart(_)
trimStart(str) ==
  IF Len(str) > 0 /\ str[1] = " " THEN trimStart(Tail(str)) ELSE str
RECURSIVE trimEnd(_)
trimEnd(str) ==
  IF Len(str) > 0 /\ str[Len(str)] = " "
  THEN trimEnd(SubSeq(str, 1, Len(str) - 1)) ELSE str
trim(str) == trimEnd(trimStart(str))

\* String.prototype.indexOf, 1-based; 0 when pat does not occur
indexOf(str, pat) ==
  LET hits == {i \in 1..(Len(str) - Len(pat) + 1) :
                 SubSeq(str, i, i + Len(pat) - 1) = pat}
  IN IF hits = {} THEN 0 ELSE CHOOSE i \in hits : \A j \in hits : i <= j
includes(str, pat) == indexOf(str, pat) # 0
endsWith(str, suf) ==
  Len(str) >= Len(suf) /\ SubSeq(str, Len(str) - Len(suf) + 1, Len(str)) = suf
\* str.replace(pat, rep) with a string pattern: the first occurrence only
replace(str, pat, rep) ==
  LET i == indexOf(str, pat)
  IN IF i = 0 THEN str
     ELSE SubSeq(str, 1, i - 1) \o rep \o SubSeq(str, i + Len(pat), Len(str))
\* str.split(sep)[0]
splitFirst(str, sep) ==
  LET i == indexOf(str, sep) IN IF i = 0 THEN str ELSE SubSeq(str, 1, i - 1)

SLASH == <<"/">>
USD == <<"U", "S", "D">>
symAAPL == <<"A", "A", "P", "L">>
symBTC == <<"B", "T", "C">>
symBTCUSD == <<"B", "T", "C", "/", "U", "S", "D">>
symBTCUSDnoSep == <<"B", "T", "C", "U", "S", "D">>
symLowerAapl == <<" ", "a", "a", "p", "l">>
symX == <<"X">>

(***************************************************************************)
(* EtoroClient.request: the error a non-2xx status is mapped to            *)
(***************************************************************************)
ErrorForStatusWithout422(status) ==
  CASE status = 401 -> "UNAUTHORIZED"
    [] status = 403 -> "FORBIDDEN"
    [] status = 404 -> "NOT_FOUND"
    [] status = 400 -> "INVALID_INPUT"
    [] status = 429 -> "RATE_LIMITED"
    [] OTHER -> "PROVIDER_ERROR"
ErrorForStatus(status) ==
  CASE status = 401 -> "UNAUTHORIZED"
    [] status = 403 -> "FORBIDDEN"
    [] status = 404 -> "NOT_FOUND"
    [] status = 400 \/ status = 422 -> "INVALID_INPUT"
    [] status = 429 -> "RATE_LIMITED"
    [] OTHER -> "PROVIDER_ERROR"

\* the answers of the broker to one request: 200, or a failure status
OkStatus == 200
FailStatuses == {429, 500}
Statuses == {OkStatus} \cup FailStatuses

\* the statuses a response may carry; response.ok is status in 200..299
HttpStatuses == {200, 201, 204, 299, 300, 400, 401, 403, 404, 422, 429, 500}
ResponseOk(status) == status >= 200 /\ status <= 299
NumRequesters == 2
RequestMaxTicks == 3
Requesters == 1..NumRequesters
NoRequestReturn == [status |-> 0, outcome |-> "none", value |-> "none"]

RequestInit ==
  /\ rqpc = [c \in Requesters |-> "idle"]
  /\ rqWake = [c \in Requesters |-> 0]
  /\ requestReturn = NoRequestReturn

\* request() up to its first suspension: the URL, headers and body are built,
\* then acquire() either takes a slot, and the request is sent, or sleeps
request(c) ==
  /\ rqpc[c] = "idle"
  /\ LET ts1 == prune(timestamps, now) IN
       IF Len(ts1) >= maxRequests
       THEN LET oldest == ts1[1]
                waitMs == waitFor(oldest, now)
            IN IF waitMs > 0
               THEN /\ timestamps' = ts1
                    /\ rqpc' = [rqpc EXCEPT ![c] = "sleeping"]
                    /\ rqWake' = [rqWake EXCEPT ![c] = now + waitMs]
               ELSE /\ timestamps' = Append(ts1, now)
                    /\ rqpc' = [rqpc EXCEPT ![c] = "fetching"]
                    /\ UNCHANGED rqWake
       ELSE /\ timestamps' = Append(ts1, now)
            /\ rqpc' = [rqpc EXCEPT ![c] = "fetching"]
            /\ UNCHANGED rqWake
  /\ requestReturn' = NoRequestReturn
  /\ UNCHANGED <<now, exceptRequest>>

\* acquire() resumes after its sleep, and the request is sent
RequestWake(c) ==
  /\ rqpc[c] = "sleeping"
  /\ now >= rqWake[c]
  /\ timestamps' = AfterSleep(timestamps, now)
  /\ rqpc' = [rqpc EXCEPT ![c] = "fetching"]
  /\ rqWake' = [rqWake EXCEPT ![c] = 0]
  /\ requestReturn' = NoRequestReturn
  /\ UNCHANGED <<now, exceptRequest>>

\* the response arrives: a typed error when it is not ok, undefined for 204,
\* else the parsed body
Response(c, status) ==
  /\ rqpc[c] = "fetching"
  /\ rqpc' = [rqpc EXCEPT ![c] = "idle"]
  /\ requestReturn' =
       IF ~ResponseOk(status)
       THEN [status |-> status, outcome |-> ErrorForStatus(status), value |-> "none"]
       ELSE [status |-> status, outcome |-> "ok",
             value |-> IF status = 204 THEN "undefined" ELSE "json"]
  /\ UNCHANGED <<now, timestamps, rqWake, exceptRequest>>

\* time passes: by one tick, or up to the next timer
RequestAdvance ==
  /\ \E t \in {now + RLTick} \cup {rqWake[c] : c \in {d \in Requesters : rqpc[d] = "sleeping"}} :
       /\ t > now
       /\ t <= RequestMaxTicks * RLTick
       /\ now' = t
  /\ requestReturn' = NoRequestReturn
  /\ UNCHANGED <<timestamps, rqpc, rqWake, exceptRequest>>

RequestNext ==
  \/ \E c \in Requesters : request(c)
  \/ \E c \in Requesters : RequestWake(c)
  \/ \E c \in Requesters, status \in HttpStatuses : Response(c, status)
  \/ RequestAdvance

(***************************************************************************)
(* EtoroInstrumentCache: symbol resolution                                 *)
(***************************************************************************)
ttlMs == 30 * 60 * 1000

\* an optional value: <<>> is undefined, <<v>> is v
Undefined == <<>>
Some(v) == <<v>>

\* isFresh(updatedAt)
isFresh(updatedAt, t) == t - updatedAt < ttlMs

\* buildSymbolCandidates: a Set in insertion order
AddCandidate(cands, x) == IF x \in Range(cands) THEN cands ELSE Append(cands, x)
buildSymbolCandidatesAsGiven(symbol) == <<symbol>>
buildSymbolCandidates(symbol) ==
  IF includes(symbol, SLASH)
  THEN AddCandidate(AddCandidate(<<symbol>>, replace(symbol, SLASH, <<>>)),
                    splitFirst(symbol, SLASH))
  ELSE IF endsWith(symbol, USD)
       THEN AddCandidate(AddCandidate(<<symbol>>, replace(symbol, USD, <<>>)),
                         symbol \o SLASH \o USD)
       ELSE <<symbol>>

\* the instruments the broker knows, by internalSymbolFull
Directory == (symAAPL :> 1) @@ (symBTC :> 2)
InstrumentIds == Range(Directory)
\* the items of the broker's answer to GET /market-data/search
SearchItems(symbol) ==
  IF symbol \in DOMAIN Directory
  THEN <<[instrumentId |-> Directory[symbol], internalSymbolFull |-> symbol]>>
  ELSE IF symbol = <<>>
       THEN <<[instrumentId |-> 3, internalSymbolFull |-> <<>>]>>  \* an item without a name
       ELSE <<>>

\* searchExactSymbol, given the items of the response: the item whose symbol is
\* the one searched, else the first item; <<>> is null
searchExactSymbolNever(symbol, items) == Undefined
searchExactSymbol(symbol, items) ==
  LET direct == {i \in 1..Len(items) : /\ Len(items[i].internalSymbolFull) > 0
                                      /\ toUpperCase(items[i].internalSymbolFull) = symbol}
      candidate == IF direct # {} THEN Some(items[CHOOSE i \in direct : \A j \in direct : i <= j])
                   ELSE IF Len(items) > 0 THEN Some(items[1]) ELSE Undefined
  IN IF candidate = Undefined THEN Undefined
     ELSE IF candidate[1].instrumentId = 0 THEN Undefined
     ELSE Some([id |-> candidate[1].instrumentId,
                symbol |-> IF Len(candidate[1].internalSymbolFull) > 0
                           THEN toUpperCase(candidate[1].internalSymbolFull)
                           ELSE symbol])

\* storeMapping(symbol, id, displaySymbol): the two maps afterwards
storeMapping(s2i, i2m, symbol, id, displaySymbol, t) ==
  [symbolToId |-> [x \in DOMAIN s2i \cup {toUpperCase(symbol)} |->
                     IF x = toUpperCase(symbol) THEN [id |-> id, updatedAt |-> t] ELSE s2i[x]],
   idToMeta |-> IF Len(displaySymbol) > 0
                THEN [x \in DOMAIN i2m \cup {id} |->
                        IF x = id THEN [symbol |-> toUpperCase(displaySymbol), updatedAt |-> t]
                        ELSE i2m[x]]
                ELSE i2m]

\* the symbol -> id cache lookup of resolveInstrumentId: the id, or Undefined
cachedInstrumentId(s2i, normalized, t) ==
  IF normalized \in DOMAIN s2i /\ isFresh(s2i[normalized].updatedAt, t)
  THEN Some(s2i[normalized].id) ELSE Undefined

(***************************************************************************)
(* EtoroTradingProvider.createOrder                                        *)
(***************************************************************************)
\* the rates the broker may answer with: instrumentId -> rate, by data version
Rate(ask, bid, lastExecution) == [ask |-> ask, bid |-> bid, lastExecution |-> lastExecution]
RateTable(d) ==
  CASE d = 1 -> (1 :> Some(Rate(Some(200), Some(199), Some(198))))
                  @@ (2 :> Some(Rate(Undefined, Some(0), Some(50))))
    [] d = 2 -> (1 :> Some(Rate(Undefined, Undefined, Undefined))) @@ (2 :> Undefined)
    [] OTHER -> [i \in InstrumentIds |-> Undefined]

\* the OrderParams createOrder is called with
OrderTypes == {"market", "limit", "stop"}
OrderSymbols == {symAAPL, symBTCUSD, symBTCUSDnoSep, symX}
OrderParams ==
  [symbol : OrderSymbols, type : OrderTypes, side : {"buy", "sell"},
   qty : {Undefined, Some(2)}, notional : {Undefined, Some(100)}]
    \ [symbol : OrderSymbols, type : OrderTypes, side : {"buy", "sell"},
       qty : {Some(2)}, notional : {Some(100)}]
NoParams == [symbol |-> <<>>, type |-> "none", side |-> "none", qty |-> Undefined,
             notional |-> Undefined]
NoBody == [InstrumentID |-> 0, IsBuy |-> FALSE, AmountInUnits |-> <<>>]
\* rate: <<>> until resolveUnits has looked the rate up, then <<rateMap.get(id)>>;
\* ratesError: the error the rates request awaited by the call failed with
\* searched: the candidates whose search request has been sent, in order
IdleCall == [pc |-> "idle", params |-> NoParams, cands |-> <<>>, searched |-> <<>>, inst |-> 0,
             await |-> 0, rates |-> 0, rate |-> <<>>, ratesError |-> "none",
             reqs |-> <<>>, body |-> NoBody]
NoOrderReturn == [outcome |-> "none", params |-> NoParams, searched |-> <<>>, inst |-> 0,
                  rate |-> <<>>,
                  ratesError |-> "none", reqs |-> <<>>, body |-> NoBody]

\* the price resolveUnits divides the notional by: ask for a buy, bid for a
\* sell, lastExecution when that one is null or undefined
\* a reference price taken from the wrong side of the book
referencePriceSwapped(side, rate) ==
  IF rate = Undefined THEN Undefined
  ELSE IF side = "buy"
       THEN (IF rate[1].bid # Undefined THEN rate[1].bid ELSE rate[1].lastExecution)
       ELSE (IF rate[1].ask # Undefined THEN rate[1].ask ELSE rate[1].lastExecution)

referencePrice(side, rate) ==
  IF rate = Undefined THEN Undefined
  ELSE IF side = "buy"
       THEN (IF rate[1].ask # Undefined THEN rate[1].ask ELSE rate[1].lastExecution)
       ELSE (IF rate[1].bid # Undefined THEN rate[1].bid ELSE rate[1].lastExecution)
\* a price check that only looks for a missing price
unusablePriceMissingOnly(price) == price = Undefined

\* !price || price <= 0
unusablePrice(price) == price = Undefined \/ price[1] = 0 \/ price[1] <= 0

\* the units of an order: a quantity, or notional / price kept as a fraction
Units(num, den) == <<num, den>>

\* a type check that lets limit orders through
typeSupportedWithLimit(params) == params.type \in {"market", "limit"}

\* the type check createOrder starts with
typeSupported(params) == params.type = "market"

(***************************************************************************)
(* EtoroTradingProvider: positions of the portfolio response               *)
(***************************************************************************)
\* String(n) and Number(str) for the non-negative integers
Digits == <<"0", "1", "2", "3", "4", "5", "6", "7", "8", "9">>
RECURSIVE String(_)
String(n) == IF n < 10 THEN <<Digits[n + 1]>> ELSE String(n \div 10) \o <<Digits[(n % 10) + 1]>>
DigitValue(ch) == (CHOOSE i \in 1..10 : Digits[i] = ch) - 1
\* Number(str): 0 for "", NaN (here <<>>) for anything but digits
RECURSIVE Number(_)
Number(str) ==
  IF str = <<>> THEN Some(0)
  ELSE IF \E i \in 1..Len(str) : str[i] \notin Range(Digits) THEN Undefined
  ELSE IF Len(str) = 1 THEN Some(DigitValue(str[1]))
  ELSE Some(Number(SubSeq(str, 1, Len(str) - 1))[1] * 10 + DigitValue(str[Len(str)]))

\* a raw position of the portfolio response; 0 stands for a missing id,
\* <<>> for a missing closeRate
RawPosition(positionId, instrumentId, units, isBuy, openRate, closeRate) ==
  [positionId |-> positionId, instrumentId |-> instrumentId, units |-> units,
   isBuy |-> isBuy, openRate |-> openRate, closeRate |-> closeRate]
\* the portfolio the broker may answer with, by data version: credit, the
\* account's own positions, and the positions of each mirror
PortfolioTable(d) ==
  CASE d = 1 -> [credit |-> 1000,
                 positions |-> <<RawPosition(11, 1, 10, TRUE, 150, Undefined),
                                 RawPosition(12, 2, 4, FALSE, 40, Some(45)),
                                 RawPosition(11, 1, 10, TRUE, 150, Undefined)>>,
                 mirrors |-> <<<<>>,
                               <<RawPosition(12, 2, 4, FALSE, 40, Some(45)),
                                 RawPosition(15, 1, 3, TRUE, 150, Undefined)>>>>]
    [] d = 2 -> [credit |-> 500,
                 positions |-> <<RawPosition(0, 1, 10, TRUE, 150, Undefined),
                                 RawPosition(13, 1, 5, TRUE, 160, Undefined),
                                 RawPosition(14, 0, 2, TRUE, 30, Undefined),
                                 RawPosition(13, 1, 7, TRUE, 165, Undefined),
                                 RawPosition(0, 1, 10, TRUE, 150, Undefined)>>,
                 mirrors |-> <<>>]
    [] OTHER -> [credit |-> 0, positions |-> <<>>, mirrors |-> <<>>]
\* the instrument metadata the broker knows: id -> symbol
MetaDirectory == (1 :> symAAPL) @@ (2 :> symBTC)

getInstrumentId(record) == record.instrumentId
getPositionId(position) == position.positionId

\* dedupePositions: the first position of every position id, and every
\* position without one
\* (bug variant: a missing position id counts as an id like any other)
RECURSIVE dedupeFromMissingAsId(_, _)
dedupeFromMissingAsId(positions, seen) ==
  IF positions = <<>> THEN <<>>
  ELSE LET id == getPositionId(Head(positions)) IN
       IF id \in seen THEN dedupeFromMissingAsId(Tail(positions), seen)
       ELSE <<Head(positions)>> \o dedupeFromMissingAsId(Tail(positions), seen \cup {id})
RECURSIVE dedupeFrom(_, _)
dedupeFrom(positions, seen) ==
  IF positions = <<>> THEN <<>>
  ELSE LET id == getPositionId(Head(positions)) IN
       IF id = 0 THEN <<Head(positions)>> \o dedupeFrom(Tail(positions), seen)
       ELSE IF id \in seen THEN dedupeFrom(Tail(positions), seen)
       ELSE <<Head(positions)>> \o dedupeFrom(Tail(positions), seen \cup {id})
dedupePositionsKeepsAll(positions) == positions
dedupePositions(positions) == dedupeFrom(positions, {})

symUNKNOWN == <<"U", "N", "K", "N", "O", "W", "N">>

\* parsePosition(position, meta, rate); meta is <<>> or <<symbol>>, rate is
\* <<>> or <<EtoroRate>>
parsePosition(position, meta, rate) ==
  LET instrumentId == getInstrumentId(position)
      positionId == getPositionId(position)
      rateCandidate == IF rate = Undefined THEN Undefined
                       ELSE IF rate[1].lastExecution # Undefined THEN rate[1].lastExecution
                       ELSE IF rate[1].bid # Undefined THEN rate[1].bid
                       ELSE rate[1].ask
      ratePrice == IF rateCandidate # Undefined /\ rateCandidate[1] > 0
                   THEN rateCandidate ELSE Undefined
      currentPrice == IF position.closeRate # Undefined THEN position.closeRate[1]
                      ELSE IF ratePrice # Undefined THEN ratePrice[1]
                      ELSE position.openRate
  IN [position_id |-> IF positionId # 0 THEN Some(String(positionId)) ELSE Undefined,
      asset_id |-> IF instrumentId # 0 THEN String(instrumentId) ELSE <<>>,
      symbol |-> IF meta # Undefined THEN meta[1]
                 ELSE IF instrumentId # 0 THEN String(instrumentId) ELSE symUNKNOWN,
      qty |-> position.units,
      avg_entry_price |-> position.openRate,
      current_price |-> currentPrice,
      market_value |-> currentPrice * position.units,
      side |-> IF position.isBuy = FALSE THEN "short" ELSE "long"]

\* normalizeSymbol: the quote-currency suffix "/USD" or "USD" dropped
normalizeSymbol(value) ==
  LET normalized == toUpperCase(trim(value)) IN
    IF endsWith(normalized, SLASH \o USD)
    THEN SubSeq(normalized, 1, Len(normalized) - 4)
    ELSE IF endsWith(normalized, USD) /\ Len(normalized) > 3
    THEN SubSeq(normalized, 1, Len(normalized) - 3)
    ELSE normalized

symbolMatches(a, b) ==
  IF a = <<>> \/ b = <<>> THEN FALSE
  ELSE LET upperA == toUpperCase(trim(a))
           upperB == toUpperCase(trim(b))
       IN upperA = upperB \/ normalizeSymbol(upperA) = normalizeSymbol(upperB)

Min(a, b) == IF a <= b THEN a ELSE b
Max(a, b) == IF a >= b THEN a ELSE b
\* (percentage / 100) * totalUnits; the inputs used keep the quotient whole
PercentOf(percentage, totalUnits) == (percentage * totalUnits) \div 100

\* unitsToDeduct of closePosition: <<>> is null (close the whole position)
unitsToDeduct(qty, percentage, totalUnits) ==
  IF qty # Undefined THEN Some(Min(qty[1], totalUnits))
  ELSE IF percentage # Undefined
  THEN Some(Max(Min(PercentOf(percentage[1], totalUnits), totalUnits), 0))
  ELSE Undefined

\* the metadata map a call holds: instrument id -> <<>> or <<symbol>>
NoMeta == [i \in InstrumentIds |-> Undefined]
NoCloseBody == [InstrumentId |-> 0, UnitsToDeduct |-> Undefined]
\* total, posId: qty and position_id of the position closePosition matched
IdleTrading == [op |-> "none", pc |-> "idle", symbol |-> <<>>, qty |-> Undefined,
                percentage |-> Undefined, await |-> 0, data |-> 0,
                portfolioError |-> "none", meta |-> NoMeta, rates |-> 0, cands |-> <<>>,
                total |-> Undefined, posId |-> Undefined, reqs |-> <<>>,
                body |-> NoCloseBody]
NoTradingReturn == [op |-> "none", outcome |-> "none", symbol |-> <<>>, qty |-> Undefined,
                    percentage |-> Undefined, data |-> 0, portfolioError |-> "none",
                    meta |-> NoMeta, rates |-> 0, total |-> Undefined, posId |-> Undefined,
                    reqs |-> <<>>, body |-> NoCloseBody, result |-> <<>>]

(***************************************************************************)
(* EtoroInstrumentCache.resolveInstrumentIds and                           *)
(* EtoroMarketDataProvider.getQuotes: the values they compute              *)
(***************************************************************************)
SEARCH_CONCURRENCY == 5
MaxBatchSymbols == 7
MaxQuoteSymbols == 4

symBlank == <<" ">>
\* symbols a caller may pass, in the order it passes them; the callers of the
\* model pass a prefix of this list
SymbolPool == <<symAAPL, symBTCUSD, symBlank, symBTCUSDnoSep, symLowerAapl, symX,
                <<"Y">>, <<"Z">>, <<"W">>>>
BatchInputs == {SubSeq(SymbolPool, 1, n) : n \in {0, 1, 3, MaxBatchSymbols}}
QuoteInputs == {SubSeq(SymbolPool, 1, n) : n \in 0..MaxQuoteSymbols}

\* Map.set on a map kept as its entries in insertion order
mapSet(m, key, val) ==
  IF \E i \in DOMAIN m : m[i].key = key
  THEN [i \in DOMAIN m |-> IF m[i].key = key THEN [key |-> key, val |-> val] ELSE m[i]]
  ELSE Append(m, [key |-> key, val |-> val])
mapHas(m, key) == \E i \in DOMAIN m : m[i].key = key
mapValues(m) == {m[i].val : i \in DOMAIN m}

\* [...new Set(symbols)]: the first occurrence of each element, in order
RECURSIVE uniqueFrom(_, _)
uniqueFrom(symbols, seen) ==
  IF symbols = <<>> THEN seen
  ELSE uniqueFrom(Tail(symbols), AddCandidate(seen, Head(symbols)))
unique(symbols) == uniqueFrom(symbols, <<>>)

\* unique.slice(i, i + SEARCH_CONCURRENCY), for the batch that starts at the
\* start-th element (bug variant: the rest of the list in one batch)
batchOfAll(symbols, start) == SubSeq(symbols, start, Len(symbols))
batchOf(symbols, start) ==
  SubSeq(symbols, start, Min(start + SEARCH_CONCURRENCY - 1, Len(symbols)))

\* one symbol's lookup within a batch: the candidates not yet searched (the
\* head is the one being searched) and how the lookup has settled
Lookup(symbol) == [symbol |-> symbol, cands |-> buildSymbolCandidates(symbol),
                   st |-> "searching", id |-> 0]
\* the loop over the settled outcomes of one batch: fulfilled, non-null lookups
\* are set in the result, in batch order
RECURSIVE mergeLookups(_, _)
mergeLookups(result, lookups) ==
  IF lookups = <<>> THEN result
  ELSE mergeLookups(IF Head(lookups).st = "found"
                    THEN mapSet(result, Head(lookups).symbol, Head(lookups).id)
                    ELSE result,
                    Tail(lookups))

\* the first loop of resolveInstrumentIds: cached symbols go to the result,
\* the others to toSearch
RECURSIVE splitCached(_, _, _, _)
splitCached(symbols, s2i, t, acc) ==
  IF symbols = <<>> THEN acc
  ELSE LET normalized == toUpperCase(trim(Head(symbols)))
           cached == cachedInstrumentId(s2i, normalized, t)
       IN splitCached(Tail(symbols), s2i, t,
                      IF cached # Undefined
                      THEN [acc EXCEPT !.result = mapSet(@, normalized, cached[1])]
                      ELSE [acc EXCEPT !.toSearch = Append(@, normalized)])

\* the tail of getQuotes: the reverse map keeps the last symbol of each id, and
\* each rate of the response whose instrument is in it becomes that symbol's quote
valueOr(opt, default) == IF opt = Undefined THEN default ELSE opt[1]
quotesOf(idMap, data) ==
  LET inputSymbol(id) ==
        idMap[CHOOSE i \in DOMAIN idMap :
                /\ idMap[i].val = id
                /\ \A j \in DOMAIN idMap : idMap[j].val = id => j <= i].key
      quoted == {id \in mapValues(idMap) \cap InstrumentIds : RateTable(data)[id] # Undefined}
  IN [symbol \in {inputSymbol(id) : id \in quoted} |->
        LET id == CHOOSE i \in quoted : inputSymbol(i) = symbol
            rate == RateTable(data)[id][1]
        IN [symbol |-> symbol, instrumentId |-> id,
            bid_price |-> valueOr(rate.bid, 0), ask_price |-> valueOr(rate.ask, 0)]]
NoQuotes == quotesOf(<<>>, 0)

\* result: the id map so far; start: where the batch in progress starts in
\* uniq; lookups: that batch; reqs: the requests the call has sent to the broker
IdleBatch == [op |-> "none", pc |-> "idle", symbols |-> <<>>, result |-> <<>>,
              uniq |-> <<>>, start |-> 0, lookups |-> <<>>, reqs |-> <<>>, await |-> 0]
NoBatchReturn == [op |-> "none", outcome |-> "none", symbols |-> <<>>, result |-> <<>>,
                  quotes |-> NoQuotes, reqs |-> <<>>]
\* the call returns: resolveInstrumentIds its id map, getQuotes its quotes
BatchReturns(call, outcome, quotes) ==
  /\ bcall' = IdleBatch
  /\ breturn' = [op |-> call.op, outcome |-> outcome, symbols |-> call.symbols,
                 result |-> call.result, quotes |-> quotes, reqs |-> call.reqs]

CacheInit ==
  /\ portfolioCache = NoEntry
  /\ portfolioPending = 0
  /\ ratesCache = NoEntry
  /\ ratesPending = 0
  /\ mdRatesCache = NoEntry
  /\ mdRatesPending = 0
  /\ inflight = {}
  /\ nextFetch = 1
  /\ cpc = [c \in CacheCallers |-> "idle"]
  /\ awaiting = [c \in CacheCallers |-> 0]
  /\ lastReturn = NoReturn

Inflight(kind) == {f \in inflight : f.kind = kind}
Waiters(id) == {c \in CacheCallers : cpc[c] # "idle" /\ awaiting[c] = id}

\* one caller's synchronous part of a cached getter of the given kind
CachedGet(c, kind, e, pend, pend2) ==
  /\ cpc[c] = "idle"
  /\ LET path == CachePath(e, pend, now) IN
       \/ /\ path = "cache"
          /\ lastReturn' = Return({c}, kind, "cache", "ok", e.data)
          /\ pend2 = pend
          /\ UNCHANGED <<inflight, nextFetch, cpc, awaiting>>
       \/ /\ path = "join"
          /\ cpc' = [cpc EXCEPT ![c] = kind]
          /\ awaiting' = [awaiting EXCEPT ![c] = pend]
          /\ pend2 = pend
          /\ lastReturn' = NoReturn
          /\ UNCHANGED <<inflight, nextFetch>>
       \/ /\ path = "fetch"
          /\ nextFetch <= MaxFetches
          /\ pend2 = nextFetch
          /\ inflight' = inflight \cup {[id |-> nextFetch, kind |-> kind]}
          /\ nextFetch' = nextFetch + 1
          /\ cpc' = [cpc EXCEPT ![c] = kind]
          /\ awaiting' = [awaiting EXCEPT ![c] = nextFetch]
          /\ lastReturn' = NoReturn
  /\ orderReturn' = NoOrderReturn
  /\ treturn' = NoTradingReturn
  /\ UNCHANGED <<now, ocall, tcall, allInstrumentsFetchedAt, exceptCache>>

\* the promise `id` settles: every caller awaiting it resumes with its result
Settle(id, kind, outcome, value) ==
  /\ cpc' = [c \in CacheCallers |-> IF c \in Waiters(id) THEN "idle" ELSE cpc[c]]
  /\ awaiting' = [c \in CacheCallers |-> IF c \in Waiters(id) THEN 0 ELSE awaiting[c]]
  /\ lastReturn' = Return(Waiters(id), kind, "fetch", outcome, value)

getCachedPortfolio(c) ==
  /\ CachedGet(c, "portfolio", portfolioCache, portfolioPending, portfolioPending')
  /\ UNCHANGED <<portfolioCache, ratesCache, ratesPending, mdRatesCache, mdRatesPending>>

getCachedRates(c) ==
  /\ CachedGet(c, "rates", ratesCache, ratesPending, ratesPending')
  /\ UNCHANGED <<ratesCache, portfolioCache, portfolioPending, mdRatesCache, mdRatesPending>>

getAllRates(c) ==
  /\ CachedGet(c, "mdrates", mdRatesCache, mdRatesPending, mdRatesPending')
  /\ UNCHANGED <<mdRatesCache, portfolioCache, portfolioPending, ratesCache, ratesPending>>

\* the broker answers GET /trading/info/{env}/portfolio
PortfolioResponse(f, ok, brokerData) ==
  /\ f \in Inflight("portfolio")
  /\ LET r == IF ok THEN OnFetched(brokerData, now, PORTFOLIO_CACHE_TTL_MS)
                    ELSE OnFetchFailed(portfolioCache, portfolioPending)
     IN /\ portfolioCache' = r.cache
        /\ portfolioPending' = r.pending
  /\ inflight' = inflight \ {f}
  /\ Settle(f.id, "portfolio", IF ok THEN "ok" ELSE "error", IF ok THEN brokerData ELSE 0)
  /\ IF tcall.pc = "portfolio" /\ tcall.await = f.id
     THEN \E status \in (IF ok THEN {OkStatus} ELSE FailStatuses) :
            tcall' = [tcall EXCEPT !.pc = "gotPortfolio", !.await = 0,
                                   !.data = IF ok THEN brokerData ELSE 0,
                                   !.portfolioError = IF ok THEN "none"
                                                      ELSE ErrorForStatus(status)]
     ELSE tcall' = tcall
  /\ orderReturn' = NoOrderReturn
  /\ treturn' = NoTradingReturn
  /\ UNCHANGED <<ratesCache, ratesPending, mdRatesCache, mdRatesPending, nextFetch>>
  /\ UNCHANGED <<now, ocall, allInstrumentsFetchedAt, exceptCache>>

\* the broker answers the rates request of fetchAllRates; its result always
\* reaches the .then handler of getCachedRates, and the promise is fulfilled
\* for every holder: the other callers, and resolveUnits of a createOrder call
RatesResponse(f, ok, brokerData) ==
  /\ f \in Inflight("rates")
  /\ LET rates == fetchAllRates(ok, brokerData)
         r == OnFetched(rates, now, RATES_CACHE_TTL_MS)
     IN /\ ratesCache' = r.cache
        /\ ratesPending' = r.pending
        /\ Settle(f.id, "rates", "ok", rates)
        /\ IF ocall.pc = "rates" /\ ocall.await = f.id
           THEN \E status \in (IF ok THEN {OkStatus} ELSE FailStatuses) :
                  ocall' = [ocall EXCEPT !.pc = "resume", !.await = 0, !.rates = rates,
                                         !.ratesError = IF ok THEN "none"
                                                        ELSE ErrorForStatus(status)]
           ELSE ocall' = ocall
        /\ tcall' = IF tcall.pc = "rates" /\ tcall.await = f.id
                    THEN [tcall EXCEPT !.pc = "gotRates", !.await = 0, !.rates = rates]
                    ELSE tcall
  /\ inflight' = inflight \ {f}
  /\ treturn' = NoTradingReturn
  /\ orderReturn' = NoOrderReturn
  /\ UNCHANGED <<portfolioCache, portfolioPending, mdRatesCache, mdRatesPending, nextFetch>>
  /\ UNCHANGED <<now, allInstrumentsFetchedAt, exceptCache>>

\* the broker answers the rates request of EtoroMarketDataProvider.getAllRates;
\* a getQuotes call awaiting it goes on to build its quotes, or throws
MdRatesResponse(f, ok, brokerData) ==
  /\ f \in Inflight("mdrates")
  /\ LET r == IF ok THEN OnFetched(brokerData, now, MD_RATES_CACHE_TTL_MS)
                    ELSE OnFetchFailed(mdRatesCache, mdRatesPending)
     IN /\ mdRatesCache' = r.cache
        /\ mdRatesPending' = r.pending
  /\ inflight' = inflight \ {f}
  /\ Settle(f.id, "mdrates", IF ok THEN "ok" ELSE "error", IF ok THEN brokerData ELSE 0)
  /\ IF bcall.pc = "rates" /\ bcall.await = f.id
     THEN IF ok THEN BatchReturns(bcall, "ok", quotesOf(bcall.result, brokerData))
          ELSE BatchReturns(bcall, "error", NoQuotes)
     ELSE /\ bcall' = bcall
          /\ breturn' = NoBatchReturn
  /\ orderReturn' = NoOrderReturn
  /\ treturn' = NoTradingReturn
  /\ UNCHANGED <<portfolioCache, portfolioPending, ratesCache, ratesPending, nextFetch>>
  /\ UNCHANGED <<now, ocall, tcall, allInstrumentsFetchedAt, exceptMdRates>>

CacheAdvance ==
  /\ now + CacheTick <= CacheMaxTime
  /\ now' = now + CacheTick
  /\ lastReturn' = NoReturn
  /\ orderReturn' = NoOrderReturn
  /\ treturn' = NoTradingReturn
  /\ UNCHANGED <<portfolioCache, portfolioPending, ratesCache, ratesPending,
                 mdRatesCache, mdRatesPending, inflight, nextFetch, cpc, awaiting,
                 ocall, tcall, allInstrumentsFetchedAt, exceptCache>>

CacheNext ==
  \/ \E c \in CacheCallers : getCachedPortfolio(c)
  \/ \E c \in CacheCallers : getCachedRates(c)
  \/ \E c \in CacheCallers : getAllRates(c)
  \/ \E f \in inflight, ok \in BOOLEAN, d \in BrokerData : PortfolioResponse(f, ok, d)
  \/ \E f \in inflight, ok \in BOOLEAN, d \in BrokerData : RatesResponse(f, ok, d)
  \/ \E f \in inflight, ok \in BOOLEAN, d \in BrokerData : MdRatesResponse(f, ok, d)
  \/ CacheAdvance

(***************************************************************************)
(* EtoroTradingProvider.createOrder: one call at a time, next to the other *)
(* callers of getCachedRates                                               *)
(***************************************************************************)
OrderInit ==
  /\ ocall = IdleCall
  /\ orderReturn = NoOrderReturn
  /\ symbolToId = <<>>
  /\ idToMeta = <<>>

\* the call ends: it returns an Order or throws the error `outcome`
OrderReturns(call, outcome) ==
  /\ ocall' = IdleCall
  /\ orderReturn' = [outcome |-> outcome, params |-> call.params,
                     searched |-> call.searched, inst |-> call.inst, rate |-> call.rate,
                     ratesError |-> call.ratesError, reqs |-> call.reqs,
                     body |-> call.body]

\* createOrder sends POST market-open-orders/by-units
SendOrder(call, units) ==
  /\ ocall' = [call EXCEPT !.pc = "submit",
                           !.reqs = Append(call.reqs, "order"),
                           !.body = [InstrumentID |-> call.inst,
                                     IsBuy |-> (call.params.side = "buy"),
                                     AmountInUnits |-> units]]
  /\ orderReturn' = NoOrderReturn

\* resolveUnits once the rate map is at hand, then the order submission
WithRates(call, data) ==
  LET rate == RateTable(data)[call.inst]
      price == referencePrice(call.params.side, rate)
      priced == [call EXCEPT !.rate = <<rate>>]
  IN IF unusablePrice(price)
     THEN OrderReturns(priced, "PROVIDER_ERROR")
     ELSE SendOrder(priced, Units(call.params.notional[1], price[1]))

\* createOrder from the resolved instrument id to its next suspension point:
\* resolveUnits (qty, or notional through getCachedRates), then the submission
WithInstrument(call) ==
  IF call.params.qty # Undefined
  THEN /\ SendOrder(call, Units(call.params.qty[1], 1))
       /\ UNCHANGED <<ratesCache, ratesPending, inflight, nextFetch>>
  ELSE IF call.params.notional = Undefined
  THEN /\ OrderReturns(call, "INVALID_INPUT")
       /\ UNCHANGED <<ratesCache, ratesPending, inflight, nextFetch>>
  ELSE LET path == CachePath(ratesCache, ratesPending, now) IN
       \/ /\ path = "cache"
          /\ WithRates(call, ratesCache.data)
          /\ UNCHANGED <<ratesCache, ratesPending, inflight, nextFetch>>
       \/ /\ path = "join"
          /\ ocall' = [call EXCEPT !.pc = "rates", !.await = ratesPending]
          /\ orderReturn' = NoOrderReturn
          /\ UNCHANGED <<ratesCache, ratesPending, inflight, nextFetch>>
       \/ /\ path = "fetch"
          /\ nextFetch <= MaxFetches
          /\ ratesPending' = nextFetch
          /\ inflight' = inflight \cup {[id |-> nextFetch, kind |-> "rates"]}
          /\ nextFetch' = nextFetch + 1
          /\ ocall' = [call EXCEPT !.pc = "rates", !.await = nextFetch,
                                   !.reqs = Append(call.reqs, "rates")]
          /\ orderReturn' = NoOrderReturn
          /\ UNCHANGED ratesCache

\* createOrder(params), up to its first suspension point
createOrder(params) ==
  /\ ocall.pc = "idle"
  /\ LET call == [IdleCall EXCEPT !.params = params] IN
       IF ~typeSupported(params)
       THEN /\ OrderReturns(call, "NOT_SUPPORTED")
            /\ UNCHANGED <<ratesCache, ratesPending, inflight, nextFetch>>
       ELSE LET normalized == toUpperCase(trim(params.symbol))
                cached == cachedInstrumentId(symbolToId, normalized, now)
            IN IF cached # Undefined
               THEN WithInstrument([call EXCEPT !.inst = cached[1]])
               ELSE /\ ocall' = [call EXCEPT !.pc = "search",
                                             !.cands = buildSymbolCandidates(normalized),
                                             !.searched =
                                               <<Head(buildSymbolCandidates(normalized))>>,
                                             !.reqs = <<"search">>]
                    /\ orderReturn' = NoOrderReturn
                    /\ UNCHANGED <<ratesCache, ratesPending, inflight, nextFetch>>
  /\ lastReturn' = NoReturn
  /\ UNCHANGED <<now, symbolToId, idToMeta, killSwitchActive, exceptOrder>>

\* the broker answers the search for the first remaining candidate
SearchResponse(status) ==
  /\ ocall.pc = "search"
  /\ LET call == ocall
         candidate == Head(call.cands)
         item == searchExactSymbol(candidate, SearchItems(candidate))
     IN IF status # OkStatus
        THEN /\ OrderReturns(call, ErrorForStatus(status))
             /\ UNCHANGED <<symbolToId, idToMeta, ratesCache, ratesPending, inflight, nextFetch>>
        ELSE IF item # Undefined
        THEN LET stored == storeMapping(symbolToId, idToMeta, candidate, item[1].id,
                                        item[1].symbol, now)
             IN /\ symbolToId' = stored.symbolToId
                /\ idToMeta' = stored.idToMeta
                /\ WithInstrument([call EXCEPT !.inst = item[1].id, !.cands = <<>>])
        ELSE IF Len(call.cands) > 1
        THEN /\ ocall' = [call EXCEPT !.cands = Tail(call.cands),
                                      !.searched = Append(call.searched, call.cands[2]),
                                      !.reqs = Append(call.reqs, "search")]
             /\ orderReturn' = NoOrderReturn
             /\ UNCHANGED <<symbolToId, idToMeta, ratesCache, ratesPending, inflight, nextFetch>>
        ELSE /\ OrderReturns(call, "NOT_FOUND")
             /\ UNCHANGED <<symbolToId, idToMeta, ratesCache, ratesPending, inflight, nextFetch>>
  /\ lastReturn' = NoReturn
  /\ UNCHANGED <<now, killSwitchActive, exceptOrder>>

\* resolveUnits resumes with the rate map its getCachedRates promise gave
ResumeWithRates ==
  /\ ocall.pc = "resume"
  /\ WithRates(ocall, ocall.rates)
  /\ lastReturn' = NoReturn
  /\ UNCHANGED <<now, ratesCache, ratesPending, inflight, nextFetch, symbolToId, idToMeta,
                 killSwitchActive, exceptOrder>>

\* the broker answers the order submission
SubmitResponse(status) ==
  /\ ocall.pc = "submit"
  /\ OrderReturns(ocall, IF status = OkStatus THEN "ok" ELSE ErrorForStatus(status))
  /\ lastReturn' = NoReturn
  /\ UNCHANGED <<now, ratesCache, ratesPending, inflight, nextFetch, symbolToId, idToMeta,
                 killSwitchActive, exceptOrder>>

\* the operator flips the kill switch
SetKillSwitch(active) ==
  /\ killSwitchActive # active
  /\ killSwitchActive' = active
  /\ orderReturn' = NoOrderReturn
  /\ lastReturn' = NoReturn
  /\ UNCHANGED <<now, ocall, ratesCache, ratesPending, inflight, nextFetch, symbolToId,
                 idToMeta, exceptOrder>>

\* getPositions and closePosition also await getCachedRates
OtherRatesCaller == CHOOSE c \in CacheCallers : \A d \in CacheCallers : c <= d

OrderNext ==
  \/ \E params \in OrderParams : createOrder(params)
  \/ \E status \in Statuses : SearchResponse(status)
  \/ getCachedRates(OtherRatesCaller)
  \/ \E f \in inflight, ok \in BOOLEAN, d \in BrokerData : RatesResponse(f, ok, d)
  \/ ResumeWithRates
  \/ \E status \in Statuses : SubmitResponse(status)
  \/ \E active \in BOOLEAN : SetKillSwitch(active)

(***************************************************************************)
(* EtoroTradingProvider.closePosition, getAccount, getPositions: one call  *)
(* at a time, next to another caller of the portfolio and rates caches     *)
(***************************************************************************)
ALL_INSTRUMENTS_CACHE_TTL_MS == 60000

\* closePosition is called with these symbols, quantities and percentages
CloseSymbols == {symAAPL, symBTCUSD, symX}
CloseQtys == {Undefined, Some(0 - 1), Some(3), Some(20)}
ClosePercentages == {Undefined, Some(0 - 50), Some(50), Some(150)}
\* qty alone, percentage alone, neither, and one case of both
CloseAmounts ==
  {a \in [qty : CloseQtys, percentage : ClosePercentages] :
     a.qty = Undefined \/ a.percentage = Undefined \/ (a.qty = Some(3) /\ a.percentage = Some(50))}
\* the profit/loss summary the broker may answer with, by data version
PnlTable(d) ==
  CASE d = 1 -> [credit |-> 1000, unrealizedPnL |-> 0 - 30]
    [] OTHER -> [credit |-> 0, unrealizedPnL |-> 0]

TradingInit ==
  /\ tcall = IdleTrading
  /\ treturn = NoTradingReturn
  /\ allInstrumentsFetchedAt = Undefined

\* the call ends: it returns `result` or throws the error `outcome`
TradingReturns(call, outcome, result) ==
  /\ tcall' = IdleTrading
  /\ treturn' = [op |-> call.op, outcome |-> outcome, symbol |-> call.symbol,
                 qty |-> call.qty, percentage |-> call.percentage, data |-> call.data,
                 portfolioError |-> call.portfolioError, meta |-> call.meta,
                 rates |-> call.rates, total |-> call.total, posId |-> call.posId,
                 reqs |-> call.reqs, body |-> call.body, result |-> result]

\* the three operations start with getCachedPortfolio()
BeginTrading(call) ==
  /\ tcall.pc = "idle"
  /\ LET path == CachePath(portfolioCache, portfolioPending, now) IN
       \/ /\ path = "cache"
          /\ tcall' = [call EXCEPT !.pc = "gotPortfolio", !.data = portfolioCache.data]
          /\ UNCHANGED <<portfolioPending, inflight, nextFetch>>
       \/ /\ path = "join"
          /\ tcall' = [call EXCEPT !.pc = "portfolio", !.await = portfolioPending]
          /\ UNCHANGED <<portfolioPending, inflight, nextFetch>>
       \/ /\ path = "fetch"
          /\ nextFetch <= MaxFetches
          /\ portfolioPending' = nextFetch
          /\ inflight' = inflight \cup {[id |-> nextFetch, kind |-> "portfolio"]}
          /\ nextFetch' = nextFetch + 1
          /\ tcall' = [call EXCEPT !.pc = "portfolio", !.await = nextFetch,
                                   !.reqs = <<"portfolio">>]
  /\ treturn' = NoTradingReturn
  /\ lastReturn' = NoReturn
  /\ UNCHANGED <<now, portfolioCache, ratesCache, ratesPending, symbolToId, idToMeta,
                 allInstrumentsFetchedAt, orderReturn, exceptTrading>>

closePosition(symbol, qty, percentage) ==
  BeginTrading([IdleTrading EXCEPT !.op = "close", !.symbol = symbol, !.qty = qty,
                                   !.percentage = percentage])
getAccount == BeginTrading([IdleTrading EXCEPT !.op = "account"])
getPositions == BeginTrading([IdleTrading EXCEPT !.op = "positions"])

\* collectPositions: the account's own positions followed by the positions of
\* every mirror, deduplicated
RECURSIVE mirrorPositions(_)
mirrorPositions(mirrors) ==
  IF mirrors = <<>> THEN <<>> ELSE Head(mirrors) \o mirrorPositions(Tail(mirrors))
collectPositions(response) ==
  dedupePositions(response.positions \o mirrorPositions(response.mirrors))

\* the raw positions a call works on: closePosition takes the account's own
\* positions as they come, getPositions deduplicates them, getAccount collects
\* them together with the mirrors' positions
positionsOf(call) ==
  IF call.op = "close" THEN PortfolioTable(call.data).positions
  ELSE IF call.op = "account" THEN collectPositions(PortfolioTable(call.data))
  ELSE dedupePositions(PortfolioTable(call.data).positions)
instrumentIdsOf(positions) == {getInstrumentId(positions[i]) : i \in DOMAIN positions} \ {0}

cachedMeta(i2m, id, t) ==
  IF id \in DOMAIN i2m /\ isFresh(i2m[id].updatedAt, t) THEN Some(i2m[id].symbol)
  ELSE Undefined
\* allInstrumentsFetchedAt is 0 until the first fetch, which no clock reading
\* is within the TTL of; <<>> stands for that 0
allInstrumentsFresh(t) ==
  /\ allInstrumentsFetchedAt # Undefined
  /\ t - allInstrumentsFetchedAt[1] < ALL_INSTRUMENTS_CACHE_TTL_MS

\* the portfolio is at hand, or its fetch has failed: getAccount then takes
\* its catch branch, the other two throw; else resolveMetadata up to its fetch
AfterPortfolio ==
  /\ tcall.pc = "gotPortfolio"
  /\ IF tcall.portfolioError # "none"
     THEN IF tcall.op = "account"
          THEN /\ tcall' = [tcall EXCEPT !.pc = "pnl", !.reqs = Append(tcall.reqs, "pnl")]
               /\ treturn' = NoTradingReturn
          ELSE TradingReturns(tcall, tcall.portfolioError, <<>>)
     ELSE LET ids == instrumentIdsOf(positionsOf(tcall))
              result == [i \in InstrumentIds |->
                           IF i \in ids THEN cachedMeta(idToMeta, i, now) ELSE Undefined]
              missing == {i \in ids : result[i] = Undefined}
          IN /\ treturn' = NoTradingReturn
             /\ IF missing # {} /\ ~allInstrumentsFresh(now)
                THEN tcall' = [tcall EXCEPT !.pc = "meta", !.meta = result,
                                            !.reqs = Append(tcall.reqs, "meta")]
                ELSE tcall' = [tcall EXCEPT !.pc = "gotMeta", !.meta = result]
  /\ lastReturn' = NoReturn
  /\ UNCHANGED <<now, portfolioCache, portfolioPending, ratesCache, ratesPending, inflight,
                 nextFetch, symbolToId, idToMeta, allInstrumentsFetchedAt, orderReturn,
                 exceptTrading>>

\* the broker answers GET /market-data/instruments: fetchInstrumentMetadata
\* stores every instrument, or on failure returns an empty map; either way
\* resolveMetadata stamps allInstrumentsFetchedAt and completes its result from
\* the fetched map and from idToMeta
MetadataResponse(status) ==
  /\ tcall.pc = "meta"
  /\ LET ok == status = OkStatus
         ids == instrumentIdsOf(positionsOf(tcall))
         stored == [i \in DOMAIN idToMeta \cup (IF ok THEN DOMAIN MetaDirectory ELSE {}) |->
                      IF ok /\ i \in DOMAIN MetaDirectory
                      THEN [symbol |-> toUpperCase(MetaDirectory[i]), updatedAt |-> now]
                      ELSE idToMeta[i]]
     IN /\ idToMeta' = stored
        /\ tcall' = [tcall EXCEPT !.pc = "gotMeta",
                                  !.meta = [i \in InstrumentIds |->
                                              IF i \in ids /\ i \in DOMAIN stored
                                              THEN Some(stored[i].symbol) ELSE Undefined]]
  /\ allInstrumentsFetchedAt' = Some(now)
  /\ treturn' = NoTradingReturn
  /\ lastReturn' = NoReturn
  /\ UNCHANGED <<now, portfolioCache, portfolioPending, ratesCache, ratesPending, inflight,
                 nextFetch, symbolToId, orderReturn, exceptTrading>>

metaFor(call, id) == IF id \in InstrumentIds THEN call.meta[id] ELSE Undefined
rateFor(data, id) == IF id \in InstrumentIds THEN RateTable(data)[id] ELSE Undefined
First(hits) == CHOOSE i \in hits : \A j \in hits : i <= j

missingPositionIdNever(position) == FALSE
\* !positionId
missingPositionId(position) == position.position_id = Undefined

\* closePosition from the matched position on: the units to deduct, the
\* position id and instrument id checks, then the close request
FinishClose(call, position) ==
  LET totalUnits == position.qty
      units == unitsToDeduct(call.qty, call.percentage, totalUnits)
      instrumentId == Number(position.asset_id)
      safeInstrumentId == IF instrumentId # Undefined THEN instrumentId[1] ELSE 0
      matched == [call EXCEPT !.total = Some(totalUnits), !.posId = position.position_id]
  IN IF missingPositionId(position) THEN TradingReturns(matched, "NOT_FOUND", <<>>)
     ELSE IF safeInstrumentId = 0 THEN TradingReturns(matched, "INVALID_INPUT", <<>>)
     ELSE /\ tcall' = [matched EXCEPT !.pc = "close",
                                      !.reqs = Append(call.reqs, "close"),
                                      !.body = [InstrumentId |-> safeInstrumentId,
                                                UnitsToDeduct |-> units]]
          /\ treturn' = NoTradingReturn

\* the fallback of closePosition: the raw position of the resolved instrument
FallbackClose(call, targetInstrumentId) ==
  LET raw == positionsOf(call)
      hits == {i \in DOMAIN raw : getInstrumentId(raw[i]) = targetInstrumentId}
  IN IF hits = {} THEN TradingReturns(call, "NOT_FOUND", <<>>)
     ELSE FinishClose(call, parsePosition(raw[First(hits)],
                                          metaFor(call, targetInstrumentId), Undefined))

\* closePosition with the metadata at hand: the position is looked up by
\* symbol, else through resolveInstrumentId
MatchPosition ==
  /\ tcall.pc = "gotMeta"
  /\ tcall.op = "close"
  /\ LET raw == positionsOf(tcall)
         parsed == [i \in DOMAIN raw |->
                      parsePosition(raw[i], metaFor(tcall, getInstrumentId(raw[i])), Undefined)]
         hits == {i \in DOMAIN raw : \/ symbolMatches(parsed[i].symbol, tcall.symbol)
                                     \/ symbolMatches(parsed[i].asset_id, tcall.symbol)}
         normalized == toUpperCase(trim(tcall.symbol))
         cached == cachedInstrumentId(symbolToId, normalized, now)
     IN IF hits # {} THEN FinishClose(tcall, parsed[First(hits)])
        ELSE IF cached # Undefined THEN FallbackClose(tcall, cached[1])
        ELSE /\ tcall' = [tcall EXCEPT !.pc = "search",
                                       !.cands = buildSymbolCandidates(normalized),
                                       !.reqs = Append(tcall.reqs, "search")]
             /\ treturn' = NoTradingReturn
  /\ lastReturn' = NoReturn
  /\ UNCHANGED <<now, portfolioCache, portfolioPending, ratesCache, ratesPending, inflight,
                 nextFetch, symbolToId, idToMeta, allInstrumentsFetchedAt, orderReturn,
                 exceptTrading>>

\* the broker answers the search of resolveInstrumentId inside closePosition;
\* whatever resolveInstrumentId throws is caught and leaves no position
CloseSearchResponse(status) ==
  /\ tcall.pc = "search"
  /\ LET candidate == Head(tcall.cands)
         item == searchExactSymbol(candidate, SearchItems(candidate))
     IN IF status # OkStatus
        THEN /\ TradingReturns(tcall, "NOT_FOUND", <<>>)
             /\ UNCHANGED <<symbolToId, idToMeta>>
        ELSE IF item # Undefined
        THEN LET stored == storeMapping(symbolToId, idToMeta, candidate, item[1].id,
                                        item[1].symbol, now)
             IN /\ symbolToId' = stored.symbolToId
                /\ idToMeta' = stored.idToMeta
                /\ FallbackClose([tcall EXCEPT !.cands = <<>>], item[1].id)
        ELSE IF Len(tcall.cands) > 1
        THEN /\ tcall' = [tcall EXCEPT !.cands = Tail(tcall.cands),
                                       !.reqs = Append(tcall.reqs, "search")]
             /\ treturn' = NoTradingReturn
             /\ UNCHANGED <<symbolToId, idToMeta>>
        ELSE /\ TradingReturns(tcall, "NOT_FOUND", <<>>)
             /\ UNCHANGED <<symbolToId, idToMeta>>
  /\ lastReturn' = NoReturn
  /\ UNCHANGED <<now, portfolioCache, portfolioPending, ratesCache, ratesPending, inflight,
                 nextFetch, allInstrumentsFetchedAt, orderReturn, exceptTrading>>

\* the broker answers the close request
CloseResponse(status) ==
  /\ tcall.pc = "close"
  /\ TradingReturns(tcall, IF status = OkStatus THEN "ok" ELSE ErrorForStatus(status), <<>>)
  /\ lastReturn' = NoReturn
  /\ UNCHANGED <<now, portfolioCache, portfolioPending, ratesCache, ratesPending, inflight,
                 nextFetch, symbolToId, idToMeta, allInstrumentsFetchedAt, orderReturn,
                 exceptTrading>>

\* getAccount and getPositions with the metadata at hand: getCachedRates()
ReadRates ==
  /\ tcall.pc = "gotMeta"
  /\ tcall.op \in {"account", "positions"}
  /\ LET path == CachePath(ratesCache, ratesPending, now) IN
       \/ /\ path = "cache"
          /\ tcall' = [tcall EXCEPT !.pc = "gotRates", !.rates = ratesCache.data]
          /\ UNCHANGED <<ratesPending, inflight, nextFetch>>
       \/ /\ path = "join"
          /\ tcall' = [tcall EXCEPT !.pc = "rates", !.await = ratesPending]
          /\ UNCHANGED <<ratesPending, inflight, nextFetch>>
       \/ /\ path = "fetch"
          /\ nextFetch <= MaxFetches
          /\ ratesPending' = nextFetch
          /\ inflight' = inflight \cup {[id |-> nextFetch, kind |-> "rates"]}
          /\ nextFetch' = nextFetch + 1
          /\ tcall' = [tcall EXCEPT !.pc = "rates", !.await = nextFetch,
                                    !.reqs = Append(tcall.reqs, "rates")]
  /\ treturn' = NoTradingReturn
  /\ lastReturn' = NoReturn
  /\ UNCHANGED <<now, portfolioCache, portfolioPending, ratesCache, symbolToId, idToMeta,
                 allInstrumentsFetchedAt, orderReturn, exceptTrading>>

RECURSIVE SumMarketValue(_)
SumMarketValue(positions) ==
  IF positions = <<>> THEN 0
  ELSE Head(positions).market_value + SumMarketValue(Tail(positions))

\* the Account fields getAccount computes
Account(credit, equity, longMarketValue) ==
  [cash |-> credit, equity |-> equity, long_market_value |-> longMarketValue]

\* rawPositions.map(...): every raw position of the call parsed with its
\* metadata and rate
parsedPositions(call) ==
  LET raw == positionsOf(call)
  IN [i \in DOMAIN raw |->
        parsePosition(raw[i], metaFor(call, getInstrumentId(raw[i])),
                      rateFor(call.rates, getInstrumentId(raw[i])))]

\* getAccount and getPositions with the rates at hand
FinishRead ==
  /\ tcall.pc = "gotRates"
  /\ LET positions == parsedPositions(tcall)
         credit == PortfolioTable(tcall.data).credit
         longMarketValue == SumMarketValue(positions)
     IN IF tcall.op = "positions"
        THEN TradingReturns(tcall, "ok", positions)
        ELSE TradingReturns(tcall, "ok",
                            Account(credit, credit + longMarketValue, longMarketValue))
  /\ lastReturn' = NoReturn
  /\ UNCHANGED <<now, portfolioCache, portfolioPending, ratesCache, ratesPending, inflight,
                 nextFetch, symbolToId, idToMeta, allInstrumentsFetchedAt, orderReturn,
                 exceptTrading>>

\* the broker answers GET /trading/info/{env}/pnl, the fallback of getAccount
PnlResponse(status, brokerData) ==
  /\ tcall.pc = "pnl"
  /\ LET credit == PnlTable(brokerData).credit
         equity == credit + PnlTable(brokerData).unrealizedPnL
     IN IF status = OkStatus
        THEN TradingReturns(tcall, "ok", Account(credit, equity, Max(equity - credit, 0)))
        ELSE TradingReturns(tcall, ErrorForStatus(status), <<>>)
  /\ lastReturn' = NoReturn
  /\ UNCHANGED <<now, portfolioCache, portfolioPending, ratesCache, ratesPending, inflight,
                 nextFetch, symbolToId, idToMeta, allInstrumentsFetchedAt, orderReturn,
                 exceptTrading>>

\* cancelOrder(orderId): DELETE market-open-orders/{orderId} goes out first
cancelOrder ==
  /\ tcall.pc = "idle"
  /\ tcall' = [IdleTrading EXCEPT !.op = "cancel", !.pc = "cancelOpen",
                                 !.reqs = <<"cancelOpen">>]
  /\ treturn' = NoTradingReturn
  /\ lastReturn' = NoReturn
  /\ UNCHANGED <<now, portfolioCache, portfolioPending, ratesCache, ratesPending, inflight,
                 nextFetch, symbolToId, idToMeta, allInstrumentsFetchedAt, orderReturn,
                 exceptTrading>>

\* a cancelOrder that gives up when the open-order cancellation fails
CancelOpenResponseNoFallback(status) ==
  /\ tcall.pc = "cancelOpen"
  /\ TradingReturns(tcall, IF status = OkStatus THEN "ok" ELSE ErrorForStatus(status), <<>>)
  /\ lastReturn' = NoReturn
  /\ UNCHANGED <<now, portfolioCache, portfolioPending, ratesCache, ratesPending, inflight,
                 nextFetch, symbolToId, idToMeta, allInstrumentsFetchedAt, orderReturn,
                 exceptTrading>>
\* the broker answers the open-order cancellation: done, or the catch branch
\* sends DELETE market-close-orders/{orderId}
CancelOpenResponse(status) ==
  /\ tcall.pc = "cancelOpen"
  /\ IF status = OkStatus
     THEN TradingReturns(tcall, "ok", <<>>)
     ELSE /\ tcall' = [tcall EXCEPT !.pc = "cancelClose",
                                    !.reqs = Append(tcall.reqs, "cancelClose")]
          /\ treturn' = NoTradingReturn
  /\ lastReturn' = NoReturn
  /\ UNCHANGED <<now, portfolioCache, portfolioPending, ratesCache, ratesPending, inflight,
                 nextFetch, symbolToId, idToMeta, allInstrumentsFetchedAt, orderReturn,
                 exceptTrading>>

\* the broker answers the close-order cancellation; its failure is the call's
CancelCloseResponse(status) ==
  /\ tcall.pc = "cancelClose"
  /\ TradingReturns(tcall, IF status = OkStatus THEN "ok" ELSE ErrorForStatus(status), <<>>)
  /\ lastReturn' = NoReturn
  /\ UNCHANGED <<now, portfolioCache, portfolioPending, ratesCache, ratesPending, inflight,
                 nextFetch, symbolToId, idToMeta, allInstrumentsFetchedAt, orderReturn,
                 exceptTrading>>

TradingNext ==
  \/ cancelOrder
  \/ \E status \in Statuses : CancelOpenResponse(status)
  \/ \E status \in Statuses : CancelCloseResponse(status)
  \/ \E symbol \in CloseSymbols, a \in CloseAmounts :
       closePosition(symbol, a.qty, a.percentage)
  \/ getAccount
  \/ getPositions
  \/ getCachedPortfolio(OtherRatesCaller)
  \/ getCachedRates(OtherRatesCaller)
  \/ \E f \in inflight, ok \in BOOLEAN, d \in BrokerData : PortfolioResponse(f, ok, d)
  \/ \E f \in inflight, ok \in BOOLEAN, d \in BrokerData : RatesResponse(f, ok, d)
  \/ AfterPortfolio
  \/ \E status \in Statuses : MetadataResponse(status)
  \/ MatchPosition
  \/ \E status \in Statuses : CloseSearchResponse(status)
  \/ \E status \in Statuses : CloseResponse(status)
  \/ ReadRates
  \/ FinishRead
  \/ \E status \in Statuses, d \in BrokerData : PnlResponse(status, d)

(***************************************************************************)
(* Risk state, order-approval workflow, cron jobs                          *)
(***************************************************************************)
\* DEFAULT_APPROVAL_TTL_SECONDS counts seconds; timestamps are in ms
SecondMs == 1000
NumPresenters == 2
MaxApprovalTtl == 2
MaxLossUsd == 2
RiskMaxTicks == 3

Presenters == 1..NumPresenters
RiskMaxTime == RiskMaxTicks * SecondMs

\* handleCronEvent's cron ids; any other id is logged as unknown
EventIngestionCron == "*/5 13-20 * * 1-5"
MarketOpenCron == "0 14 * * 1-5"
MarketCloseCron == "30 21 * * 1-5"
MidnightCron == "0 5 * * *"
HourlyCron == "0 * * * *"
UnknownCron == "unknown"
CronIds == {EventIngestionCron, MarketOpenCron, MarketCloseCron, MidnightCron, HourlyCron,
            UnknownCron}
NoJob == "none"

\* an order_approvals row: used_at is NULL until the token is consumed
NoApproval == [status |-> "none", expiresAt |-> 0, usedAt |-> Undefined]
NewApproval(expiresAt) == [status |-> "stored", expiresAt |-> expiresAt, usedAt |-> Undefined]

NoRiskReturn == [to |-> 0, op |-> "none", outcome |-> "none"]

RiskInit ==
  /\ killSwitchActive = FALSE
  /\ dailyLossUsd = 0
  /\ dailyLossResetAt = 0
  /\ approval = NoApproval
  /\ ppc = [p \in Presenters |-> "idle"]
  /\ brokerOrders = 0
  /\ riskReturn = NoRiskReturn
  /\ cronJob = NoJob

\* a token check that forgets to look at used_at
TokenVerdictIgnoresUsed(a, t) ==
  IF a.status # "stored" THEN "INVALID_APPROVAL_TOKEN"
  ELSE IF t >= a.expiresAt THEN "EXPIRED_APPROVAL_TOKEN"
  ELSE "ok"

\* a token check that forgets to look at expires_at
TokenVerdictIgnoresExpiry(a, t) ==
  IF a.status # "stored" THEN "INVALID_APPROVAL_TOKEN"
  ELSE IF a.usedAt # Undefined THEN "INVALID_APPROVAL_TOKEN"
  ELSE "ok"

\* what presenting the token at time t is answered with: an unknown or used
\* token is invalid, one past its expiry is expired
TokenVerdict(a, t) ==
  IF a.status # "stored" THEN "INVALID_APPROVAL_TOKEN"
  ELSE IF a.usedAt # Undefined THEN "INVALID_APPROVAL_TOKEN"
  ELSE IF t >= a.expiresAt THEN "EXPIRED_APPROVAL_TOKEN"
  ELSE "ok"

\* an order above the risk threshold is previewed: its approval is stored with
\* a unique token and an expiry
CreateApproval(ttl) ==
  /\ approval.status = "none"
  /\ approval' = NewApproval(now + ttl * SecondMs)
  /\ riskReturn' = NoRiskReturn
  /\ UNCHANGED <<now, dailyLossUsd, dailyLossResetAt, ppc, brokerOrders, cronJob, exceptRisk>>

\* presenter p presents the token: one conditional update stamps used_at if
\* the token is valid, unexpired and unused, and the order goes to the broker
PresentToken(p) ==
  /\ ppc[p] = "idle"
  /\ LET verdict == TokenVerdict(approval, now) IN
       IF verdict = "ok"
       THEN /\ approval' = [approval EXCEPT !.usedAt = Some(now)]
            /\ brokerOrders' = brokerOrders + 1
            /\ ppc' = [ppc EXCEPT ![p] = "submitting"]
            /\ riskReturn' = NoRiskReturn
       ELSE /\ riskReturn' = [to |-> p, op |-> "present", outcome |-> verdict]
            /\ UNCHANGED <<approval, brokerOrders, ppc>>
  /\ UNCHANGED <<now, dailyLossUsd, dailyLossResetAt, cronJob, exceptRisk>>

\* the broker answers the order submitted for presenter p
BrokerOrderResponse(p, status) ==
  /\ ppc[p] = "submitting"
  /\ ppc' = [ppc EXCEPT ![p] = "idle"]
  /\ riskReturn' = [to |-> p, op |-> "submit",
                    outcome |-> IF status = OkStatus THEN "ok" ELSE ErrorForStatus(status)]
  /\ UNCHANGED <<now, dailyLossUsd, dailyLossResetAt, approval, brokerOrders, cronJob,
                 exceptRisk>>

\* a realized loss is added to the day's total
RecordLoss(lossUsd) ==
  /\ dailyLossUsd + lossUsd <= MaxLossUsd
  /\ dailyLossUsd' = dailyLossUsd + lossUsd
  /\ riskReturn' = NoRiskReturn
  /\ UNCHANGED <<now, dailyLossResetAt, approval, ppc, brokerOrders, cronJob, exceptRisk>>

\* resetDailyLoss(db)
resetDailyLoss ==
  /\ dailyLossUsd' = 0
  /\ dailyLossResetAt' = now

\* cleanupExpiredApprovals(db): the row afterwards
cleanupExpiredApprovals(a, t) ==
  IF a.status = "stored" /\ a.expiresAt < t THEN [a EXCEPT !.status = "deleted"] ELSE a

\* the jobs, each up to its cleanupExpiredApprovals call or to its end; `ok`
\* tells whether the awaited database or broker calls succeed (a failure is
\* caught and logged, and the job ends)
runEventIngestion(ok) ==
  /\ cronJob' = NoJob
  /\ UNCHANGED <<dailyLossUsd, dailyLossResetAt>>

\* a market-open job that also resets the daily loss
runMarketOpenPrepResets(ok) ==
  /\ cronJob' = IF ok THEN MarketOpenCron ELSE NoJob
  /\ IF ok THEN resetDailyLoss ELSE UNCHANGED <<dailyLossUsd, dailyLossResetAt>>

runMarketOpenPrep(ok) ==
  /\ cronJob' = IF ok THEN MarketOpenCron ELSE NoJob
  /\ UNCHANGED <<dailyLossUsd, dailyLossResetAt>>

runMarketCloseCleanup(ok) ==
  /\ cronJob' = IF ok THEN MarketCloseCron ELSE NoJob
  /\ UNCHANGED <<dailyLossUsd, dailyLossResetAt>>

runMidnightReset(ok) ==
  /\ cronJob' = IF ok THEN MidnightCron ELSE NoJob
  /\ IF ok THEN resetDailyLoss ELSE UNCHANGED <<dailyLossUsd, dailyLossResetAt>>

runHourlyCacheRefresh ==
  /\ cronJob' = NoJob
  /\ UNCHANGED <<dailyLossUsd, dailyLossResetAt>>

\* the scheduler fires the cron `cronId`
handleCronEvent(cronId, ok) ==
  /\ cronJob = NoJob
  /\ CASE cronId = EventIngestionCron -> runEventIngestion(ok)
       [] cronId = MarketOpenCron -> runMarketOpenPrep(ok)
       [] cronId = MarketCloseCron -> runMarketCloseCleanup(ok)
       [] cronId = MidnightCron -> runMidnightReset(ok)
       [] cronId = HourlyCron -> runHourlyCacheRefresh
       [] OTHER -> UNCHANGED <<cronJob, dailyLossUsd, dailyLossResetAt>>
  /\ riskReturn' = NoRiskReturn
  /\ UNCHANGED <<now, approval, ppc, brokerOrders, exceptRisk>>

\* the suspended job resumes with its cleanupExpiredApprovals call and ends
CronCleanup(ok) ==
  /\ cronJob # NoJob
  /\ approval' = IF ok THEN cleanupExpiredApprovals(approval, now) ELSE approval
  /\ cronJob' = NoJob
  /\ riskReturn' = NoRiskReturn
  /\ UNCHANGED <<now, dailyLossUsd, dailyLossResetAt, ppc, brokerOrders, exceptRisk>>

RiskAdvance ==
  /\ now + SecondMs <= RiskMaxTime
  /\ now' = now + SecondMs
  /\ riskReturn' = NoRiskReturn
  /\ UNCHANGED <<dailyLossUsd, dailyLossResetAt, approval, ppc, brokerOrders, cronJob,
                 exceptRisk>>

RiskNext ==
  \/ \E ttl \in 1..MaxApprovalTtl : CreateApproval(ttl)
  \/ \E p \in Presenters : PresentToken(p)
  \/ \E p \in Presenters, status \in Statuses : BrokerOrderResponse(p, status)
  \/ \E lossUsd \in 1..MaxLossUsd : RecordLoss(lossUsd)
  \/ \E cronId \in CronIds, ok \in BOOLEAN : handleCronEvent(cronId, ok)
  \/ \E ok \in BOOLEAN : CronCleanup(ok)
  \/ RiskAdvance

(***************************************************************************)
(* createEtoroProviders: the provider set of the process, kept in the      *)
(* module variable cachedProviders under a key made of the credentials     *)
(***************************************************************************)
\* String.prototype.toLowerCase, one character
LowerChar(ch) ==
  CASE ch = "A" -> "a" [] ch = "D" -> "d" [] ch = "E" -> "e" [] ch = "L" -> "l"
    [] ch = "M" -> "m" [] ch = "O" -> "o" [] ch = "R" -> "r" [] ch = "T" -> "t"
    [] ch = "U" -> "u" [] OTHER -> ch
toLowerCase(str) == [i \in 1..Len(str) |-> LowerChar(str[i])]

strReal == <<"r", "e", "a", "l">>
strDemo == <<"d", "e", "m", "o">>
strDebug == <<"d", "e", "b", "u", "g">>
strNoDebug == <<"n", "o", "d", "e", "b", "u", "g">>
COLON == <<":">>
DebugFlags == {<<"t", "r", "u", "e">>, <<"1">>, <<"e", "t", "o", "r", "o">>}

\* the Env bindings createEtoroProviders reads
ProviderEnv(apiKey, userKey, etoroEnv, debug) ==
  [ETORO_API_KEY |-> apiKey, ETORO_USER_KEY |-> userKey, ETORO_ENV |-> etoroEnv,
   DEBUG |-> debug]
\* the environments it is called with: one without an API key, then credential
\* sets that differ in a key, in the environment or in the debug flag
ProviderEnvs ==
  {ProviderEnv(<<>>, <<"a">>, Undefined, Undefined),
   ProviderEnv(<<"b">>, <<"b">>, Undefined, Undefined),
   ProviderEnv(<<"a">>, <<":", "a">>, Undefined, Undefined),
   ProviderEnv(<<"a", ":">>, <<"a">>, Undefined, Undefined),
   ProviderEnv(<<"a">>, <<":", "a">>, Some(<<"R", "e", "a", "l">>), Undefined),
   ProviderEnv(<<"a">>, <<":", "a">>, Some(strDemo), Undefined),
   ProviderEnv(<<"a">>, <<":", "a">>, Undefined, Some(<<"1">>))}
MaxProviders == 3

normalizedEnv(env) ==
  IF env.ETORO_ENV # Undefined /\ toLowerCase(env.ETORO_ENV[1]) = strReal
  THEN strReal ELSE strDemo
debugEnabled(env) == env.DEBUG # Undefined /\ toLowerCase(env.DEBUG[1]) \in DebugFlags
\* `${normalizedEnv}:${env.ETORO_API_KEY}:${env.ETORO_USER_KEY}:${debug}`
cacheKey(env) ==
  normalizedEnv(env) \o COLON \o env.ETORO_API_KEY \o COLON \o env.ETORO_USER_KEY
    \o COLON \o (IF debugEnabled(env) THEN strDebug ELSE strNoDebug)
\* the config createEtoroClient is given: the credential set of the client,
\* its RateLimiter and the providers built on it
ClientConfig(env) ==
  [apiKey |-> env.ETORO_API_KEY, userKey |-> env.ETORO_USER_KEY,
   env |-> normalizedEnv(env), debug |-> debugEnabled(env)]

NoProvidersReturn == [env |-> <<>>, outcome |-> "none", providers |-> 0]

ProvidersInit ==
  /\ cachedProviders = Undefined
  /\ instances = <<>>
  /\ providersReturn = NoProvidersReturn

\* createEtoroProviders(env); a provider set is named by its index in `instances`
createEtoroProviders(env) ==
  /\ IF env.ETORO_API_KEY = <<>> \/ env.ETORO_USER_KEY = <<>>
     THEN /\ providersReturn' = [env |-> env, outcome |-> "error", providers |-> 0]
          /\ UNCHANGED <<cachedProviders, instances>>
     ELSE IF cachedProviders # Undefined /\ cachedProviders[1].key = cacheKey(env)
     THEN /\ providersReturn' = [env |-> env, outcome |-> "ok",
                                 providers |-> cachedProviders[1].providers]
          /\ UNCHANGED <<cachedProviders, instances>>
     ELSE /\ Len(instances) < MaxProviders
          /\ instances' = Append(instances, ClientConfig(env))
          /\ cachedProviders' = Some([key |-> cacheKey(env), providers |-> Len(instances) + 1])
          /\ providersReturn' = [env |-> env, outcome |-> "ok",
                                 providers |-> Len(instances) + 1]
  /\ UNCHANGED <<now, exceptProviders>>

ProvidersNext == \E env \in ProviderEnvs : createEtoroProviders(env)

(***************************************************************************)
(* EtoroInstrumentCache.resolveInstrumentIds, resolveMetadata and          *)
(* EtoroMarketDataProvider.getQuotes: one batch call at a time, next to    *)
(* callers of resolveMetadata and of getAllRates                           *)
(***************************************************************************)
NumMetaCallers == 2
MetaMaxTicks == 4
MetaCallers == 1..NumMetaCallers
MetaTick == ALL_INSTRUMENTS_CACHE_TTL_MS \div 2
MetaMaxTime == MetaMaxTicks * MetaTick
\* the id lists resolveMetadata is called with: instrument 3 is in no directory
MetaIdSets == {{1}, {1, 3}}

IdleMeta == [pc |-> "idle", ids |-> {}]
NoMetaReturn == [to |-> {}, src |-> "none", metas |-> <<>>]

BatchInit ==
  /\ bcall = IdleBatch
  /\ breturn = NoBatchReturn

MetaInit ==
  /\ metadataPending = 0
  /\ metaInflight = 0
  /\ mcall = [c \in MetaCallers |-> IdleMeta]
  /\ mreturn = NoMetaReturn

\* resolveMetadata(ids) up to its await: the cached metadata is enough, or the
\* pending directory fetch is shared, or a new one is started
\* (bug variant: the pending promise is not consulted)
metadataPathNoJoin(i2m, ids, t) ==
  IF {i \in ids : cachedMeta(i2m, i, t) = Undefined} # {} /\ ~allInstrumentsFresh(t)
  THEN "fetch" ELSE "cache"
metadataPath(i2m, ids, t) ==
  IF {i \in ids : cachedMeta(i2m, i, t) = Undefined} # {} /\ ~allInstrumentsFresh(t)
  THEN IF metadataPending # 0 THEN "join" ELSE "fetch"
  ELSE "cache"

\* the batch of the call that starts at `start`: one search per symbol is sent
\* (bug variant: every batch also requests the instrument directory)
StartBatchWithMetadata(call, start) ==
  LET batch == batchOf(call.uniq, start)
  IN [call EXCEPT !.pc = "search", !.start = start,
                  !.lookups = [k \in DOMAIN batch |-> Lookup(batch[k])],
                  !.reqs = (@ \o [k \in DOMAIN batch |-> "search"]) \o <<"meta">>]
StartBatch(call, start) ==
  LET batch == batchOf(call.uniq, start)
  IN [call EXCEPT !.pc = "search", !.start = start,
                  !.lookups = [k \in DOMAIN batch |-> Lookup(batch[k])],
                  !.reqs = @ \o [k \in DOMAIN batch |-> "search"]]

\* the id map is at hand: resolveInstrumentIds returns it; getQuotes returns {}
\* when it is empty, else awaits getAllRates()
\* (bug variant: getQuotes asks for the rates of an empty id map too)
returnsWithoutRatesIdsOnly(call) == call.op = "ids"
returnsWithoutRates(call) == call.op = "ids" \/ Len(call.result) = 0
AfterIds(call) ==
  IF returnsWithoutRates(call)
  THEN /\ BatchReturns(call, "ok", NoQuotes)
       /\ UNCHANGED <<mdRatesPending, inflight, nextFetch>>
  ELSE LET path == CachePath(mdRatesCache, mdRatesPending, now) IN
         \/ /\ path = "cache"
            /\ BatchReturns(call, "ok", quotesOf(call.result, mdRatesCache.data))
            /\ UNCHANGED <<mdRatesPending, inflight, nextFetch>>
         \/ /\ path = "join"
            /\ bcall' = [call EXCEPT !.pc = "rates", !.await = mdRatesPending]
            /\ breturn' = NoBatchReturn
            /\ UNCHANGED <<mdRatesPending, inflight, nextFetch>>
         \/ /\ path = "fetch"
            /\ nextFetch <= MaxFetches
            /\ bcall' = [call EXCEPT !.pc = "rates", !.await = nextFetch,
                                     !.reqs = Append(@, "rates")]
            /\ breturn' = NoBatchReturn
            /\ mdRatesPending' = nextFetch
            /\ inflight' = inflight \cup {[id |-> nextFetch, kind |-> "mdrates"]}
            /\ nextFetch' = nextFetch + 1

\* parallelSearch has returned and its ids are merged: resolveMetadata(allIds)
\* up to its await, when there is any id
AfterSearch(call, i2m) ==
  LET allIds == mapValues(call.result)
      path == IF allIds = {} THEN "cache" ELSE metadataPath(i2m, allIds, now)
  IN \/ /\ path = "cache"
        /\ AfterIds(call)
        /\ UNCHANGED <<metadataPending, metaInflight>>
     \/ /\ path = "join"
        /\ bcall' = [call EXCEPT !.pc = "meta", !.lookups = <<>>]
        /\ breturn' = NoBatchReturn
        /\ UNCHANGED <<metadataPending, metaInflight, mdRatesPending, inflight, nextFetch>>
     \/ /\ path = "fetch"
        /\ bcall' = [call EXCEPT !.pc = "meta", !.lookups = <<>>,
                                 !.reqs = Append(@, "meta")]
        /\ breturn' = NoBatchReturn
        /\ metadataPending' = 1
        /\ metaInflight' = metaInflight + 1
        /\ UNCHANGED <<mdRatesPending, inflight, nextFetch>>

\* resolveInstrumentIds(symbols), called directly (op "ids") or by
\* getQuotes(symbols) (op "quotes"), up to the first await
BeginBatch(op, symbols) ==
  /\ bcall.pc = "idle"
  /\ LET split == splitCached(symbols, symbolToId, now, [result |-> <<>>, toSearch |-> <<>>])
         call == [IdleBatch EXCEPT !.op = op, !.symbols = symbols, !.result = split.result,
                                   !.uniq = unique(split.toSearch)]
     IN IF op = "quotes" /\ Len(symbols) = 0
        THEN /\ BatchReturns(call, "ok", NoQuotes)
             /\ UNCHANGED <<metadataPending, metaInflight, mdRatesPending, inflight, nextFetch>>
        ELSE IF Len(split.toSearch) > 0
        THEN /\ bcall' = StartBatch(call, 1)
             /\ breturn' = NoBatchReturn
             /\ UNCHANGED <<metadataPending, metaInflight, mdRatesPending, inflight, nextFetch>>
        ELSE /\ AfterIds(call)
             /\ UNCHANGED <<metadataPending, metaInflight>>
  /\ lastReturn' = NoReturn
  /\ mreturn' = NoMetaReturn
  /\ UNCHANGED <<now, symbolToId, idToMeta, allInstrumentsFetchedAt, mdRatesCache, cpc,
                 awaiting, mcall, exceptBatch>>

resolveInstrumentIds(symbols) == BeginBatch("ids", symbols)
getQuotes(symbols) == BeginBatch("quotes", symbols)

\* the broker answers the search of the k-th lookup of the batch: the lookup
\* stores and returns a match, searches its next candidate, returns null, or
\* is rejected; when the whole batch has settled, the loop of parallelSearch
\* goes on with the next batch or the call goes on after parallelSearch
LookupResponse(k, ok) ==
  /\ bcall.pc = "search"
  /\ k \in DOMAIN bcall.lookups
  /\ bcall.lookups[k].st = "searching"
  /\ LET l == bcall.lookups[k]
         candidate == Head(l.cands)
         item == IF ok THEN searchExactSymbol(candidate, SearchItems(candidate)) ELSE Undefined
         stored == IF item # Undefined
                   THEN storeMapping(symbolToId, idToMeta, candidate, item[1].id,
                                     item[1].symbol, now)
                   ELSE [symbolToId |-> symbolToId, idToMeta |-> idToMeta]
         searchesOn == ok /\ item = Undefined /\ Len(l.cands) > 1
         l2 == IF ~ok THEN [l EXCEPT !.st = "failed"]
               ELSE IF item # Undefined THEN [l EXCEPT !.st = "found", !.id = item[1].id]
               ELSE IF searchesOn THEN [l EXCEPT !.cands = Tail(l.cands)]
               ELSE [l EXCEPT !.st = "none"]
         call2 == [bcall EXCEPT !.lookups[k] = l2,
                                !.reqs = IF searchesOn THEN Append(@, "search") ELSE @]
         settled == \A j \in DOMAIN call2.lookups : call2.lookups[j].st # "searching"
         call3 == [call2 EXCEPT !.result = mergeLookups(@, call2.lookups)]
     IN /\ symbolToId' = stored.symbolToId
        /\ idToMeta' = stored.idToMeta
        /\ IF ~settled
           THEN /\ bcall' = call2
                /\ breturn' = NoBatchReturn
                /\ UNCHANGED <<metadataPending, metaInflight, mdRatesPending, inflight,
                               nextFetch>>
           ELSE IF call3.start + SEARCH_CONCURRENCY <= Len(call3.uniq)
           THEN /\ bcall' = StartBatch(call3, call3.start + SEARCH_CONCURRENCY)
                /\ breturn' = NoBatchReturn
                /\ UNCHANGED <<metadataPending, metaInflight, mdRatesPending, inflight,
                               nextFetch>>
           ELSE AfterSearch([call3 EXCEPT !.lookups = <<>>], stored.idToMeta)
  /\ lastReturn' = NoReturn
  /\ mreturn' = NoMetaReturn
  /\ UNCHANGED <<now, allInstrumentsFetchedAt, mdRatesCache, cpc, awaiting, mcall,
                 exceptBatch>>

\* resolveMetadata(ids) of caller c, up to its await
resolveMetadata(c, ids) ==
  /\ mcall[c].pc = "idle"
  /\ LET path == metadataPath(idToMeta, ids, now) IN
       \/ /\ path = "cache"
          /\ mreturn' = [to |-> {c}, src |-> "cache",
                         metas |-> [d \in {c} |-> [i \in ids |-> cachedMeta(idToMeta, i, now)]]]
          /\ UNCHANGED <<mcall, metadataPending, metaInflight>>
       \/ /\ path = "join"
          /\ mcall' = [mcall EXCEPT ![c] = [pc |-> "meta", ids |-> ids]]
          /\ mreturn' = NoMetaReturn
          /\ UNCHANGED <<metadataPending, metaInflight>>
       \/ /\ path = "fetch"
          /\ mcall' = [mcall EXCEPT ![c] = [pc |-> "meta", ids |-> ids]]
          /\ mreturn' = NoMetaReturn
          /\ metadataPending' = 1
          /\ metaInflight' = metaInflight + 1
  /\ UNCHANGED <<now, idToMeta, allInstrumentsFetchedAt, exceptMeta>>

\* the broker answers GET /market-data/instruments: fetchInstrumentMetadata
\* stores every instrument, or on failure returns an empty map; the .then
\* handler stamps allInstrumentsFetchedAt and clears metadataPending, and every
\* call awaiting the promise completes its result from the fetched map and idToMeta
DirectoryResponse(ok) ==
  /\ metaInflight > 0
  /\ LET stored == [i \in DOMAIN idToMeta \cup (IF ok THEN DOMAIN MetaDirectory ELSE {}) |->
                      IF ok /\ i \in DOMAIN MetaDirectory
                      THEN [symbol |-> toUpperCase(MetaDirectory[i]), updatedAt |-> now]
                      ELSE idToMeta[i]]
         waiters == {c \in MetaCallers : mcall[c].pc = "meta"}
     IN /\ idToMeta' = stored
        /\ mcall' = [c \in MetaCallers |-> IF c \in waiters THEN IdleMeta ELSE mcall[c]]
        /\ mreturn' = [to |-> waiters, src |-> "fetch",
                       metas |-> [c \in waiters |->
                                    [i \in mcall[c].ids |->
                                       IF i \in DOMAIN stored THEN Some(stored[i].symbol)
                                       ELSE Undefined]]]
  /\ allInstrumentsFetchedAt' = Some(now)
  /\ metadataPending' = 0
  /\ metaInflight' = metaInflight - 1
  /\ IF bcall.pc = "meta"
     THEN AfterIds(bcall)
     ELSE /\ bcall' = bcall
          /\ breturn' = NoBatchReturn
          /\ UNCHANGED <<mdRatesPending, inflight, nextFetch>>
  /\ lastReturn' = NoReturn
  /\ UNCHANGED <<now, symbolToId, mdRatesCache, cpc, awaiting, exceptBatch>>

MetaAdvance ==
  /\ now + MetaTick <= MetaMaxTime
  /\ now' = now + MetaTick
  /\ mreturn' = NoMetaReturn
  /\ UNCHANGED <<idToMeta, allInstrumentsFetchedAt, metadataPending, metaInflight, mcall,
                 exceptMeta>>

BatchNext ==
  \/ \E symbols \in BatchInputs : resolveInstrumentIds(symbols)
  \/ \E k \in 1..SEARCH_CONCURRENCY, ok \in BOOLEAN : LookupResponse(k, ok)
  \/ \E ok \in BOOLEAN : DirectoryResponse(ok)

QuotesNext ==
  \/ \E symbols \in QuoteInputs : getQuotes(symbols)
  \/ \E k \in 1..SEARCH_CONCURRENCY, ok \in BOOLEAN : LookupResponse(k, ok)
  \/ \E ok \in BOOLEAN : DirectoryResponse(ok)
  \/ getAllRates(OtherRatesCaller)
  \/ \E f \in inflight, ok \in BOOLEAN, d \in BrokerData : MdRatesResponse(f, ok, d)

MetaNext ==
  \/ \E c \in MetaCallers, ids \in MetaIdSets : resolveMetadata(c, ids)
  \/ \E ok \in BOOLEAN : DirectoryResponse(ok)
  \/ MetaAdvance

(***************************************************************************)
(* runEventIngestion, the job of the cron "*/5 13-20 * * 1-5", step by     *)
(* step, next to the operator's kill switch and the market's opening hours *)
(***************************************************************************)
MaxEvents == 3
EventIds == 1..MaxEvents
\* what SECEdgarProvider.poll() may return: source ids, in feed order; the
\* empty list when the feed request failed
RECURSIVE Ascending(_)
Ascending(S) ==
  IF S = {} THEN <<>>
  ELSE LET m == CHOOSE x \in S : \A y \in S : x <= y IN <<m>> \o Ascending(S \ {m})
EventLists == {Ascending(S) : S \in SUBSET EventIds}

\* EtoroTradingProvider.getClock(): no request is made, the market is
\* reported open whatever the time
getClock == [is_open |-> TRUE]

\* openAtStart: whether the market was open when the run began
IdleIngest == [pc |-> "idle", events |-> <<>>, outcome |-> "none", openAtStart |-> TRUE]
IngestEnds(outcome) ==
  ingest' = [IdleIngest EXCEPT !.outcome = outcome, !.openAtStart = ingest.openAtStart]

IngestInit ==
  /\ marketOpen = TRUE
  /\ ingest = IdleIngest
  /\ rawEvents = {}

\* the job starts: getClock() is awaited and answers at once; a closed market
\* ends the job, else getRiskState(db) is awaited
IngestionBegin ==
  /\ ingest.pc = "idle"
  /\ IF ~getClock.is_open
     THEN ingest' = [IdleIngest EXCEPT !.outcome = "market closed", !.openAtStart = marketOpen]
     ELSE ingest' = [IdleIngest EXCEPT !.pc = "risk", !.openAtStart = marketOpen]
  /\ UNCHANGED <<now, marketOpen, rawEvents, exceptIngest>>

\* getRiskState answers (or throws: the job logs and ends): an active kill
\* switch ends the job, else the news provider is polled
IngestionRiskState(ok) ==
  /\ ingest.pc = "risk"
  /\ IF ~ok THEN IngestEnds("error")
     ELSE IF killSwitchActive THEN IngestEnds("kill switch")
     ELSE ingest' = [ingest EXCEPT !.pc = "poll"]
  /\ UNCHANGED <<now, marketOpen, rawEvents, exceptIngest>>

\* poll() answers with its events; the loop over them starts
IngestionPoll(events) ==
  /\ ingest.pc = "poll"
  /\ IF events = <<>> THEN IngestEnds("complete")
     ELSE ingest' = [ingest EXCEPT !.pc = "insert", !.events = events]
  /\ UNCHANGED <<now, marketOpen, rawEvents, exceptIngest>>

\* one turn of the loop: rawEventExists, then insertRawEvent when it does not;
\* a database failure ends the job
IngestionInsert(ok) ==
  /\ ingest.pc = "insert"
  /\ IF ~ok
     THEN /\ IngestEnds("error")
          /\ UNCHANGED rawEvents
     ELSE /\ rawEvents' = rawEvents \cup {Head(ingest.events)}
          /\ IF Len(ingest.events) = 1 THEN IngestEnds("complete")
             ELSE ingest' = [ingest EXCEPT !.events = Tail(ingest.events)]
  /\ UNCHANGED <<now, marketOpen, exceptIngest>>

\* the market opens or closes
MarketBell(open) ==
  /\ marketOpen # open
  /\ marketOpen' = open
  /\ UNCHANGED <<now, ingest, rawEvents, exceptIngest>>

IngestNext ==
  \/ IngestionBegin
  \/ \E ok \in BOOLEAN : IngestionRiskState(ok)
  \/ \E events \in EventLists : IngestionPoll(events)
  \/ \E ok \in BOOLEAN : IngestionInsert(ok)
  \/ \E open \in BOOLEAN : MarketBell(open)
  \/ \E active \in BOOLEAN : SetKillSwitch(active)

(***************************************************************************)
(* EtoroTradingProvider.cancelAllOrders: listOrders, then cancelOrder for   *)
(* every order of the list                                                  *)
(***************************************************************************)
MaxOrders == 3
OrderIds == 21..(20 + MaxOrders)
\* the instrument every listed order is for
OrderInstrument == 1
\* the order ids of the portfolio the broker may answer with: orders,
\* ordersForOpen and ordersForClose one after the other, in any order of ids,
\* every order carrying its id
OrderLists ==
  {o \in UNION {[1..n -> OrderIds] : n \in 0..MaxOrders} :
     \A i, j \in DOMAIN o : o[i] = o[j] => i = j}

\* orders: what listOrders returned; next: the index of the order cancelOrder
\* is working on; cancelled: the ids whose cancellation succeeded; reqs: the
\* requests sent to the broker
IdleCancelAll == [pc |-> "idle", listed |-> FALSE, orders |-> <<>>, next |-> 0,
                  cancelled |-> <<>>, reqs |-> <<>>]
NoCancelAllReturn == [outcome |-> "none", listed |-> FALSE, orders |-> <<>>, next |-> 0,
                      cancelled |-> <<>>, reqs |-> <<>>]
Request(kind, id) == [kind |-> kind, id |-> id]

CancelAllInit ==
  /\ acall = IdleCancelAll
  /\ areturn = NoCancelAllReturn

\* the call ends: it returns, or throws the error `outcome`
CancelAllReturns(call, outcome) ==
  /\ acall' = IdleCancelAll
  /\ areturn' = [outcome |-> outcome, listed |-> call.listed, orders |-> call.orders,
                 next |-> call.next, cancelled |-> call.cancelled, reqs |-> call.reqs]

\* the for loop reaches the order at index k: past the end the call returns,
\* else cancelOrder sends DELETE market-open-orders/{orderId}
CancelFrom(call, k) ==
  IF k > Len(call.orders) THEN CancelAllReturns(call, "ok")
  ELSE /\ acall' = [call EXCEPT !.pc = "cancelOpen", !.next = k,
                                !.reqs = Append(call.reqs,
                                                Request("cancelOpen", call.orders[k]))]
       /\ areturn' = NoCancelAllReturn

\* cancelAllOrders(): listOrders requests the portfolio, past every cache
cancelAllOrders ==
  /\ acall.pc = "idle"
  /\ acall' = [IdleCancelAll EXCEPT !.pc = "list", !.reqs = <<Request("portfolio", 0)>>]
  /\ areturn' = NoCancelAllReturn
  /\ UNCHANGED <<now, idToMeta, allInstrumentsFetchedAt, exceptCancelAll>>

\* the broker answers the portfolio request of listOrders: a failure is the
\* call's; else resolveMetadata runs for the orders' instruments, up to its
\* directory request when an instrument is missing and the directory is stale
ListOrdersResponse(status, orders) ==
  /\ acall.pc = "list"
  /\ IF status # OkStatus
     THEN CancelAllReturns(acall, ErrorForStatus(status))
     ELSE LET call == [acall EXCEPT !.listed = TRUE, !.orders = orders]
              ids == IF orders = <<>> THEN {} ELSE {OrderInstrument}
              missing == {i \in ids : cachedMeta(idToMeta, i, now) = Undefined}
          IN IF missing # {} /\ ~allInstrumentsFresh(now)
             THEN /\ acall' = [call EXCEPT !.pc = "meta",
                                           !.reqs = Append(call.reqs, Request("meta", 0))]
                  /\ areturn' = NoCancelAllReturn
             ELSE CancelFrom(call, 1)
  /\ UNCHANGED <<now, idToMeta, allInstrumentsFetchedAt, exceptCancelAll>>

\* the broker answers the directory request of listOrders' resolveMetadata:
\* stored or not, listOrders returns its orders and the loop starts
ListMetadataResponse(status) ==
  /\ acall.pc = "meta"
  /\ LET ok == status = OkStatus
     IN idToMeta' = [i \in DOMAIN idToMeta \cup (IF ok THEN DOMAIN MetaDirectory ELSE {}) |->
                       IF ok /\ i \in DOMAIN MetaDirectory
                       THEN [symbol |-> toUpperCase(MetaDirectory[i]), updatedAt |-> now]
                       ELSE idToMeta[i]]
  /\ allInstrumentsFetchedAt' = Some(now)
  /\ CancelFrom(acall, 1)
  /\ UNCHANGED <<now, exceptCancelAll>>

\* the broker answers DELETE market-open-orders/{orderId}: cancelOrder returns
\* and the loop goes on, or its catch branch sends DELETE
\* market-close-orders/{orderId}
LoopCancelOpenResponse(status) ==
  /\ acall.pc = "cancelOpen"
  /\ LET id == acall.reqs[Len(acall.reqs)].id
     IN IF status = OkStatus
        THEN CancelFrom([acall EXCEPT !.cancelled = Append(@, id)], acall.next + 1)
        ELSE /\ acall' = [acall EXCEPT !.pc = "cancelClose",
                                       !.reqs = Append(@, Request("cancelClose", id))]
             /\ areturn' = NoCancelAllReturn
  /\ UNCHANGED <<now, idToMeta, allInstrumentsFetchedAt, exceptCancelAll>>

\* (bug variant: a cancellation that failed on both paths is skipped)
LoopCancelCloseResponseSkipsFailure(status) ==
  /\ acall.pc = "cancelClose"
  /\ LET id == acall.reqs[Len(acall.reqs)].id
     IN IF status = OkStatus
        THEN CancelFrom([acall EXCEPT !.cancelled = Append(@, id)], acall.next + 1)
        ELSE CancelFrom(acall, acall.next + 1)
  /\ UNCHANGED <<now, idToMeta, allInstrumentsFetchedAt, exceptCancelAll>>
\* the broker answers DELETE market-close-orders/{orderId}: cancelOrder returns
\* and the loop goes on, or cancelOrder throws and cancelAllOrders with it
LoopCancelCloseResponse(status) ==
  /\ acall.pc = "cancelClose"
  /\ LET id == acall.reqs[Len(acall.reqs)].id
     IN IF status = OkStatus
        THEN CancelFrom([acall EXCEPT !.cancelled = Append(@, id)], acall.next + 1)
        ELSE CancelAllReturns(acall, ErrorForStatus(status))
  /\ UNCHANGED <<now, idToMeta, allInstrumentsFetchedAt, exceptCancelAll>>

CancelAllNext ==
  \/ cancelAllOrders
  \/ \E status \in Statuses, orders \in OrderLists : ListOrdersResponse(status, orders)
  \/ \E status \in Statuses : ListMetadataResponse(status)
  \/ \E status \in Statuses : LoopCancelOpenResponse(status)
  \/ \E status \in Statuses : LoopCancelCloseResponse(status)

(***************************************************************************)
(* Specifications                                                          *)
(***************************************************************************)
Init ==
  /\ now = 0
  /\ RLInit
  /\ CacheInit
  /\ OrderInit
  /\ TradingInit
  /\ RequestInit
  /\ ProvidersInit
  /\ RiskInit
  /\ BatchInit
  /\ MetaInit
  /\ IngestInit
  /\ CancelAllInit

SpecRL == Init /\ [][RLNext]_vars
SpecCache == Init /\ [][CacheNext]_vars
SpecOrder == Init /\ [][OrderNext]_vars
SpecTrading == Init /\ [][TradingNext]_vars
SpecRisk == Init /\ [][RiskNext]_vars
SpecRequest == Init /\ [][RequestNext]_vars
SpecProviders == Init /\ [][ProvidersNext]_vars
SpecBatch == Init /\ [][BatchNext]_vars
SpecQuotes == Init /\ [][QuotesNext]_vars
SpecMeta == Init /\ [][MetaNext]_vars
SpecIngest == Init /\ [][IngestNext]_vars
\* createOrder and closePosition next to getPositions: one order call and
\* one trading call at a time, either of which may be in progress while the
\* other runs
MutationOrders ==
  {params \in OrderParams :
     params.symbol = symAAPL /\ params.type = "market" /\ params.side = "buy"}
MutationNext ==
  \/ \E params \in MutationOrders : createOrder(params)
  \/ \E status \in Statuses : SearchResponse(status)
  \/ ResumeWithRates
  \/ \E status \in Statuses : SubmitResponse(status)
  \/ \E symbol \in CloseSymbols : closePosition(symbol, Undefined, Undefined)
  \/ getPositions
  \/ \E f \in inflight, ok \in BOOLEAN, d \in BrokerData : PortfolioResponse(f, ok, d)
  \/ \E f \in inflight, ok \in BOOLEAN, d \in BrokerData : RatesResponse(f, ok, d)
  \/ AfterPortfolio
  \/ \E status \in Statuses : MetadataResponse(status)
  \/ MatchPosition
  \/ \E status \in Statuses : CloseSearchResponse(status)
  \/ \E status \in Statuses : CloseResponse(status)
  \/ ReadRates
  \/ FinishRead
SpecMutation == Init /\ [][MutationNext]_vars
SpecCancelAll == Init /\ [][CancelAllNext]_vars
\* the client's own steps are fair: time passes and the timers of acquire()
\* fire; nothing obliges the broker to answer, and request() sets no timer on
\* its fetch
RequestFairness ==
  /\ WF_vars(RequestAdvance)
  /\ \A c \in Requesters : WF_vars(RequestWake(c))
SpecRequestLive == SpecRequest /\ RequestFairness
\* the event loop is fair to the rate limiter: time passes and every timer
\* set by acquire() fires once it is due
NumLiveCallers == 2
LiveCallers == 1..NumLiveCallers
RLLiveNext ==
  \/ \E c \in LiveCallers : AcquireStart(c)
  \/ \E c \in LiveCallers : AcquireWake(c)
  \/ RLAdvance
RLFairness ==
  /\ WF_vars(RLAdvance)
  /\ \A c \in LiveCallers : WF_vars(AcquireWake(c))
SpecRLLive == Init /\ [][RLLiveNext]_vars /\ RLFairness

(***************************************************************************)
(* Claims                                                                  *)
(***************************************************************************)

\* the timestamps admitted in the trailing window that ends now
InWindow == {i \in 1..Len(timestamps) : timestamps[i] > now - windowMs}

\* C1: no trailing 60,000 ms window ever contains more admitted timestamps
\* than the configured cap, for every interleaving of acquire() calls.
C1_WindowNeverExceedsCap == Cardinality(InWindow) <= maxRequests


CacheKinds == {"portfolio", "rates", "mdrates"}
PendingOf(kind) ==
  CASE kind = "portfolio" -> portfolioPending
    [] kind = "rates" -> ratesPending
    [] kind = "mdrates" -> mdRatesPending

\* C4: for each cache at most one underlying fetch is in flight at any time,
\* and every suspended caller awaits that one pending promise: a caller that
\* arrives while a fetch is outstanding starts no second fetch.
C4_OneFetchInFlight ==
  /\ \A k \in CacheKinds : Cardinality(Inflight(k)) <= 1
  /\ \A c \in CacheCallers :
       cpc[c] # "idle" =>
         /\ awaiting[c] = PendingOf(cpc[c])
         /\ [id |-> awaiting[c], kind |-> cpc[c]] \in inflight

\* two callers share the one in-flight fetch of a cache
C4_Witness ==
  \E k \in CacheKinds :
    /\ Cardinality({c \in CacheCallers : cpc[c] = k}) >= 2
    /\ Cardinality(Inflight(k)) = 1

\* C5: while a cache entry is fresh (now < expiresAt) no fetch of that cache
\* is in flight or pending, and every get returns the cached value without
\* starting a fetch.
C5_FreshServedFromCache ==
  /\ [](Fresh(portfolioCache, now) => (Inflight("portfolio") = {} /\ portfolioPending = 0))
  /\ [](Fresh(ratesCache, now) => (Inflight("rates") = {} /\ ratesPending = 0))
  /\ [](Fresh(mdRatesCache, now) => (Inflight("mdrates") = {} /\ mdRatesPending = 0))
  /\ [][\A c \in CacheCallers :
          /\ (getCachedPortfolio(c) /\ Fresh(portfolioCache, now)) =>
               /\ lastReturn' = Return({c}, "portfolio", "cache", "ok", portfolioCache.data)
               /\ inflight' = inflight /\ nextFetch' = nextFetch
          /\ (getCachedRates(c) /\ Fresh(ratesCache, now)) =>
               /\ lastReturn' = Return({c}, "rates", "cache", "ok", ratesCache.data)
               /\ inflight' = inflight /\ nextFetch' = nextFetch
          /\ (getAllRates(c) /\ Fresh(mdRatesCache, now)) =>
               /\ lastReturn' = Return({c}, "mdrates", "cache", "ok", mdRatesCache.data)
               /\ inflight' = inflight /\ nextFetch' = nextFetch]_vars

\* a caller has just been served the fresh portfolio snapshot from the cache,
\* at a time later than the fetch that filled it
C5_Witness ==
  /\ lastReturn.kind = "portfolio"
  /\ lastReturn.src = "cache"
  /\ Fresh(portfolioCache, now)
  /\ now > 0

\* C6: when the portfolio fetch fails, every caller sharing that fetch
\* receives the error, the in-flight marker is cleared and the cache is left
\* as it was; the pending field never holds a settled promise, so the caller
\* that comes next starts a new fetch.
C6_PortfolioFailureNotCached ==
  /\ [](portfolioPending # 0 =>
          [id |-> portfolioPending, kind |-> "portfolio"] \in inflight)
  /\ [][\A f \in inflight, d \in BrokerData :
          PortfolioResponse(f, FALSE, d) =>
            /\ portfolioPending' = 0
            /\ portfolioCache' = portfolioCache
            /\ lastReturn' = Return(Waiters(f.id), "portfolio", "fetch", "error", 0)
            /\ \A c \in Waiters(f.id) : cpc'[c] = "idle"]_vars
  /\ [][\A c \in CacheCallers :
          (getCachedPortfolio(c) /\ lastReturn.kind = "portfolio"
             /\ lastReturn.outcome = "error") =>
            /\ portfolioPending' = nextFetch
            /\ inflight' = inflight \cup {[id |-> nextFetch, kind |-> "portfolio"]}]_vars

\* the portfolio fetch has failed twice within one TTL window, the second
\* failure being the retry of the caller that came after the first
C6_Witness ==
  /\ lastReturn.kind = "portfolio"
  /\ lastReturn.outcome = "error"
  /\ lastReturn.to # {}
  /\ nextFetch = 3
  /\ ~portfolioCache.present
  /\ ratesCache = NoEntry /\ ratesPending = 0
  /\ mdRatesCache = NoEntry /\ mdRatesPending = 0
  /\ inflight = {}
  /\ now < PORTFOLIO_CACHE_TTL_MS

\* C8: when the rates request of the trading provider fails, no entry is
\* cached (the rates cache is left as it was) and the pending marker is
\* cleared, so the next getCachedRates caller issues a new request.
C8_RatesFailureNotCached ==
  [][\A f \in inflight, d \in BrokerData :
       RatesResponse(f, FALSE, d) =>
         (ratesCache' = ratesCache /\ ratesPending' = 0)]_vars


\* a step in which a createOrder call begins
OrderCallBegins == ocall.pc = "idle" /\ (ocall'.pc # "idle" \/ orderReturn'.outcome # "none")

\* C2: while the kill switch is active, every createOrder call fails with
\* KILL_SWITCH_ACTIVE and sends nothing to the broker: no symbol search, no
\* rates request, no order submission.
C2_KillSwitchBlocksOrders ==
  [][(killSwitchActive /\ OrderCallBegins) =>
       /\ orderReturn'.outcome = "KILL_SWITCH_ACTIVE"
       /\ orderReturn'.reqs = <<>>
       /\ ocall'.pc = "idle"
       /\ inflight' = inflight]_vars

\* C10: createOrder with an order type other than market fails with
\* NOT_SUPPORTED before any broker or market-data request: the call never
\* suspends, it records no request, starts no rates fetch, builds no order body
\* and leaves the instrument cache alone.
C10_NonMarketNotSupported ==
  /\ [](ocall.pc # "idle" => ocall.params.type = "market")
  /\ []((orderReturn.outcome # "none" /\ orderReturn.params.type # "market") =>
          /\ orderReturn.outcome = "NOT_SUPPORTED"
          /\ orderReturn.reqs = <<>>
          /\ orderReturn.body = NoBody)
  /\ [][(orderReturn'.outcome # "none" /\ orderReturn'.params.type # "market") =>
          /\ inflight' = inflight
          /\ ratesPending' = ratesPending
          /\ symbolToId' = symbolToId]_vars

\* a limit order has just been refused
C10_Witness ==
  /\ orderReturn.outcome = "NOT_SUPPORTED"
  /\ orderReturn.params.type = "limit"
  /\ orderReturn.reqs = <<>>


\* C3: however presentations of one approval token interleave, used_at goes
\* from null to set at most once and only at a time before expires_at, and the
\* order is submitted to the broker at most once for that token.
C3_TokenConsumedOnce ==
  /\ [](brokerOrders <= 1)
  /\ [](approval.usedAt # Undefined => approval.usedAt[1] < approval.expiresAt)
  /\ [][approval.usedAt # Undefined => approval'.usedAt = approval.usedAt]_vars
  /\ [][brokerOrders' # brokerOrders =>
          /\ brokerOrders' = brokerOrders + 1
          /\ approval.usedAt = Undefined
          /\ approval'.usedAt = Some(now)]_vars

\* two presentations at once: the order of one is still at the broker when
\* the other is refused
C3_Witness ==
  /\ brokerOrders = 1
  /\ riskReturn.op = "present"
  /\ riskReturn.outcome = "INVALID_APPROVAL_TOKEN"
  /\ \E p \in Presenters : p # riskReturn.to /\ ppc[p] = "submitting"

\* the token is already used, or its expiry has passed
TokenSpent == approval.status = "stored" /\ (approval.usedAt # Undefined \/ approval.expiresAt <= now)

\* C7: presenting a used or expired approval token fails with
\* EXPIRED_APPROVAL_TOKEN or INVALID_APPROVAL_TOKEN in the presenting step
\* itself, before anything is sent: the approval row is unchanged, the
\* presenter does not suspend and nothing is submitted to the broker.
C7_SpentTokenRefused ==
  [][\A p \in Presenters :
       (TokenSpent /\ PresentToken(p)) =>
         /\ riskReturn'.to = p
         /\ riskReturn'.outcome \in {"EXPIRED_APPROVAL_TOKEN", "INVALID_APPROVAL_TOKEN"}
         /\ approval' = approval
         /\ ppc' = ppc
         /\ brokerOrders' = brokerOrders]_vars

\* an expired, never used token has just been refused
C7_Witness ==
  /\ riskReturn.op = "present"
  /\ riskReturn.outcome = "EXPIRED_APPROVAL_TOKEN"
  /\ approval.status = "stored"
  /\ approval.usedAt = Undefined
  /\ approval.expiresAt <= now
  /\ brokerOrders = 0

\* C9: daily_loss_usd never decreases except through the scheduled daily
\* reset, which sets it to 0 and stamps daily_loss_reset_at.
C9_DailyLossOnlyResetLowers ==
  [][dailyLossUsd' < dailyLossUsd =>
       /\ cronJob = NoJob
       /\ cronJob' = MidnightCron
       /\ dailyLossUsd' = 0
       /\ dailyLossResetAt' = now]_vars

\* the midnight job has reset the daily loss and stamped the reset time
C9_Witness ==
  /\ cronJob = MidnightCron
  /\ dailyLossUsd = 0
  /\ dailyLossResetAt = now
  /\ now > 0


\* the price the units of a notional order are to be computed from, given the
\* rate looked up for the instrument: the ask for a buy, the bid for a sell,
\* the last execution when the rate does not carry that one
ExpectedReferencePrice(side, rate) ==
  IF rate = Undefined THEN Undefined
  ELSE LET sidePrice == IF side = "buy" THEN rate[1].ask ELSE rate[1].bid
       IN IF sidePrice # Undefined THEN sidePrice ELSE rate[1].lastExecution
NotionalOrder(params) == params.qty = Undefined /\ params.notional # Undefined
\* the order body of a notional order carries notional / reference price
NotionalUnits(params, rate, body) ==
  (NotionalOrder(params) /\ body # NoBody) =>
    /\ rate # <<>>
    /\ ExpectedReferencePrice(params.side, rate[1]) # Undefined
    /\ body.AmountInUnits =
         <<params.notional[1], ExpectedReferencePrice(params.side, rate[1])[1]>>
    /\ body.IsBuy = (params.side = "buy")

\* C11: createOrder with a notional and no qty submits AmountInUnits =
\* notional / referencePrice, the reference price being the ask for a buy, the
\* bid for a sell, and the last execution when the rate lacks that price.
C11_UnitsFromNotional ==
  /\ NotionalUnits(ocall.params, ocall.rate, ocall.body)
  /\ NotionalUnits(orderReturn.params, orderReturn.rate, orderReturn.body)

\* a notional buy is at the broker, priced at the last execution because the
\* rate has no ask
C11_Witness ==
  /\ ocall.pc = "submit"
  /\ NotionalOrder(ocall.params)
  /\ ocall.params.side = "buy"
  /\ ocall.rate = <<Some(Rate(Undefined, Some(0), Some(50)))>>
  /\ ocall.body.AmountInUnits = <<100, 50>>

\* the rate looked up for a notional order gives no positive reference price
NoUsablePrice(params, rate) ==
  /\ NotionalOrder(params)
  /\ rate # <<>>
  /\ LET price == ExpectedReferencePrice(params.side, rate[1])
     IN price = Undefined \/ price[1] <= 0

\* C12: createOrder with a notional fails, and never sends the order
\* submission, when no positive reference price exists for the instrument.
C12_NoPriceNoOrder ==
  /\ ~NoUsablePrice(ocall.params, ocall.rate)
  /\ NoUsablePrice(orderReturn.params, orderReturn.rate) =>
       /\ orderReturn.outcome \notin {"ok", "none"}
       /\ orderReturn.body = NoBody
       /\ "order" \notin Range(orderReturn.reqs)

\* a notional order has just failed on a rate that carries no price at all
C12_Witness ==
  /\ orderReturn.outcome = "PROVIDER_ERROR"
  /\ NotionalOrder(orderReturn.params)
  /\ orderReturn.rate = <<Some(Rate(Undefined, Undefined, Undefined))>>
  /\ "order" \notin Range(orderReturn.reqs)


\* C15: when a broker request made for createOrder fails (the symbol search,
\* the rates request or the order submission), createOrder fails with that
\* request's error kind, unchanged.
C15_OrderErrorsSurfaceUnchanged ==
  /\ []((orderReturn.ratesError # "none" /\ "rates" \in Range(orderReturn.reqs)) =>
          orderReturn.outcome = orderReturn.ratesError)
  /\ [][\A status \in FailStatuses :
          SearchResponse(status) => orderReturn'.outcome = ErrorForStatus(status)]_vars
  /\ [][\A status \in FailStatuses :
          SubmitResponse(status) => orderReturn'.outcome = ErrorForStatus(status)]_vars


\* C13: the UnitsToDeduct closePosition sends lies in [0, total]: it is
\* min(qty, total) when qty is given, otherwise percentage/100 x total clamped
\* to [0, total], total being the size of the matched position.
C13_UnitsToDeductInRange ==
  (tcall.pc = "close" /\ (tcall.qty # Undefined \/ tcall.percentage # Undefined)) =>
    LET total == tcall.total[1]
        units == tcall.body.UnitsToDeduct
        share == (tcall.percentage[1] * total) \div 100
    IN /\ units # Undefined
       /\ 0 <= units[1]
       /\ units[1] <= total
       /\ tcall.qty # Undefined =>
            units[1] = (IF tcall.qty[1] <= total THEN tcall.qty[1] ELSE total)
       /\ tcall.qty = Undefined =>
            units[1] = (IF share < 0 THEN 0 ELSE IF share > total THEN total ELSE share)

\* the raw positions of a portfolio that closePosition(symbol) can match: by
\* the instrument's symbol or id string, directly or up to the "/USD" or "USD"
\* suffix, or by an instrument id the broker's search resolves the symbol to
MatchingPositions(symbol, data) ==
  LET raw == PortfolioTable(data).positions
      candidates == Range(buildSymbolCandidates(toUpperCase(trim(symbol))))
  IN {i \in DOMAIN raw :
        \/ /\ raw[i].instrumentId \in DOMAIN MetaDirectory
           /\ symbolMatches(toUpperCase(MetaDirectory[raw[i].instrumentId]), symbol)
        \/ /\ raw[i].instrumentId # 0
           /\ symbolMatches(String(raw[i].instrumentId), symbol)
        \/ \E c \in candidates : c \in DOMAIN Directory /\ Directory[c] = raw[i].instrumentId}

\* C14: closePosition, with the portfolio at hand, fails with NOT_FOUND and
\* sends no close request when no position matches the symbol (directly, by
\* suffix variant or by resolved instrument id) or when the matched position
\* has no position id.
C14_ClosePositionNotFound ==
  (treturn.op = "close" /\ treturn.portfolioError = "none") =>
    LET raw == PortfolioTable(treturn.data).positions
        refused == treturn.outcome = "NOT_FOUND" /\ "close" \notin Range(treturn.reqs)
    IN /\ (\A i \in MatchingPositions(treturn.symbol, treturn.data) : raw[i].positionId = 0)
            => refused
       /\ (treturn.total # Undefined /\ treturn.posId = Undefined) => refused
\* closePosition("AAPL") has matched a position that has no position id, next
\* to one that has, and returned NOT_FOUND
C14_Witness ==
  /\ treturn.op = "close"
  /\ treturn.symbol = symAAPL
  /\ treturn.total = Some(10)
  /\ treturn.posId = Undefined
  /\ \E i \in MatchingPositions(symAAPL, treturn.data) :
       PortfolioTable(treturn.data).positions[i].positionId # 0
  /\ treturn.outcome = "NOT_FOUND"

\* C16: getAccount never fails outright: when the portfolio fetch fails it
\* falls back to the profit/loss summary endpoint and returns equity = credit +
\* unrealizedPnL, and that endpoint is requested only after the portfolio path
\* has failed.
C16_GetAccountNeverFails ==
  /\ treturn.op = "account" =>
       /\ treturn.outcome = "ok"
       /\ treturn.portfolioError # "none" =>
            \E d \in BrokerData :
              /\ treturn.result.cash = PnlTable(d).credit
              /\ treturn.result.equity = PnlTable(d).credit + PnlTable(d).unrealizedPnL
  /\ "pnl" \in Range(tcall.reqs) => tcall.portfolioError # "none"
  /\ "pnl" \in Range(treturn.reqs) => treturn.portfolioError # "none"

\* the indices of the raw positions that survive deduplication: those without
\* a position id, and the first of every position id
KeptPositions(raw) ==
  {i \in DOMAIN raw :
     raw[i].positionId = 0 \/ \A j \in 1..(i - 1) : raw[j].positionId # raw[i].positionId}
NthOf(S, k) == CHOOSE i \in S : Cardinality({j \in S : j < i}) = k - 1

\* C17: getPositions fails only when the portfolio fetch fails; otherwise it
\* returns one Position per deduplicated raw position, even if metadata and
\* rates enrichment fail: the symbol then falls back to the instrument id
\* string or UNKNOWN, the price to closeRate or the entry price.
C17_PositionsDegradeGracefully ==
  treturn.op = "positions" =>
    LET raw == PortfolioTable(treturn.data).positions
        kept == KeptPositions(raw)
    IN /\ (treturn.outcome = "ok") = (treturn.portfolioError = "none")
       /\ treturn.outcome # "ok" => treturn.outcome = treturn.portfolioError
       /\ treturn.outcome = "ok" =>
            /\ Len(treturn.result) = Cardinality(kept)
            /\ \A k \in 1..Len(treturn.result) :
                 LET position == raw[NthOf(kept, k)]
                     parsed == treturn.result[k]
                     id == position.instrumentId
                     noMeta == id = 0 \/ treturn.meta[id] = Undefined
                     noRate == id = 0 \/ RateTable(treturn.rates)[id] = Undefined
                 IN /\ parsed.qty = position.units
                    /\ parsed.avg_entry_price = position.openRate
                    /\ noMeta => parsed.symbol = (IF id # 0 THEN String(id) ELSE symUNKNOWN)
                    /\ position.closeRate # Undefined =>
                         parsed.current_price = position.closeRate[1]
                    /\ (position.closeRate = Undefined /\ noRate) =>
                         parsed.current_price = position.openRate
\* getPositions has returned the two deduplicated positions of a portfolio of
\* three although the metadata fetch and the rates fetch both failed
C17_Witness ==
  /\ treturn.op = "positions"
  /\ treturn.outcome = "ok"
  /\ "meta" \in Range(treturn.reqs)
  /\ treturn.meta = NoMeta
  /\ treturn.rates = EmptyRateMap
  /\ Len(PortfolioTable(treturn.data).positions) = 3
  /\ Len(treturn.result) = 2
  /\ treturn.result[1].symbol = <<"1">>
  /\ treturn.result[1].current_price = 150
  /\ treturn.result[2].current_price = 45

\* C18: sessions with different credential sets never share provider
\* instances: the providers createEtoroProviders returns were created for the
\* credential set of the call.
C18_NoSharingAcrossCredentials ==
  providersReturn.outcome = "ok" =>
    instances[providersReturn.providers] = ClientConfig(providersReturn.env)

\* C19: for one credential set there is exactly one set of provider instances
\* (one RateLimiter, one cache set): no two were created for the same
\* credentials, whatever calls with other credentials happened in between.
C19_OneInstancePerCredentials ==
  \A i, j \in DOMAIN instances : instances[i] = instances[j] => i = j

C21_CancelFallsBackOnce ==
  /\ [](tcall.pc = "cancelOpen" => tcall.reqs = <<"cancelOpen">>)
  /\ [][\A status \in Statuses :
          CancelOpenResponse(status) =>
            IF status = OkStatus
            THEN treturn'.outcome = "ok" /\ treturn'.reqs = <<"cancelOpen">>
            ELSE /\ tcall'.reqs = <<"cancelOpen", "cancelClose">>
                 /\ treturn'.outcome = "none"]_vars
  /\ [][\A status \in Statuses :
          CancelCloseResponse(status) =>
            /\ treturn'.reqs = <<"cancelOpen", "cancelClose">>
            /\ (treturn'.outcome = "ok") = (status = OkStatus)]_vars
  /\ []((treturn.op = "cancel" /\ treturn.outcome # "ok") =>
          treturn.reqs = <<"cancelOpen", "cancelClose">>)
\* a cancelOrder whose open-order cancellation failed has succeeded through the
\* close-order cancellation
C21_Witness ==
  /\ treturn.op = "cancel"
  /\ treturn.reqs = <<"cancelOpen", "cancelClose">>
  /\ treturn.outcome = "ok"

\* the searches of a resolveInstrumentId call for `symbol` went through the
\* candidates in generation order, each sent only after all before it found
\* no match
SearchedInOrder(symbol, searched) ==
  LET candidates == buildSymbolCandidates(toUpperCase(trim(symbol)))
  IN /\ Len(searched) <= Len(candidates)
     /\ \A k \in 1..Len(searched) : searched[k] = candidates[k]
     /\ \A k \in 1..(Len(searched) - 1) : searched[k] \notin DOMAIN Directory

\* C22: resolveInstrumentId searches the candidates one at a time in
\* generation order; the first candidate whose search returns a match gives
\* the returned id and no later candidate is searched; if no candidate
\* matches, the call fails with NOT_FOUND and adds nothing to the symbol->id
\* cache.
C22_FirstMatchingCandidateWins ==
  /\ [](SearchedInOrder(ocall.params.symbol, ocall.searched))
  /\ [](SearchedInOrder(orderReturn.params.symbol, orderReturn.searched))
  /\ [](ocall.pc = "search" =>
          Len(ocall.searched) = Len(ocall.reqs) /\ Range(ocall.reqs) = {"search"})
  /\ []((orderReturn.searched # <<>> /\ orderReturn.inst # 0) =>
          LET last == orderReturn.searched[Len(orderReturn.searched)]
          IN last \in DOMAIN Directory /\ orderReturn.inst = Directory[last])
  /\ []((orderReturn.searched # <<>> /\ orderReturn.inst = 0) =>
          /\ orderReturn.outcome \in {"NOT_FOUND"} \cup {ErrorForStatus(f) : f \in FailStatuses}
          /\ orderReturn.outcome = "NOT_FOUND" =>
               /\ orderReturn.searched =
                    buildSymbolCandidates(toUpperCase(trim(orderReturn.params.symbol)))
               /\ \A c \in Range(orderReturn.searched) : c \notin DOMAIN Directory)
  /\ [][symbolToId' # symbolToId =>
          /\ ocall.pc = "search"
          /\ Head(ocall.cands) \in DOMAIN Directory
          /\ orderReturn'.outcome # "NOT_FOUND"]_vars
\* a call for "BTC/USD" has searched BTC/USD, BTCUSD and BTC in turn and
\* returned the id of BTC
C22_Witness ==
  /\ orderReturn.params.symbol = symBTCUSD
  /\ orderReturn.searched = <<symBTCUSD, symBTCUSDnoSep, symBTC>>
  /\ orderReturn.inst = Directory[symBTC]
  /\ symBTC \in DOMAIN symbolToId

\* C23: resolveInstrumentId("BTC/USD") and resolveInstrumentId("BTCUSD")
\* return the same instrument id when the broker matches "BTC" and has no
\* match for the other candidates: both return the id of BTC, neither fails
\* with NOT_FOUND.
C23_SlashAndPlainResolveAlike ==
  orderReturn.params.symbol \in {symBTCUSD, symBTCUSDnoSep} =>
    /\ orderReturn.outcome # "NOT_FOUND"
    /\ orderReturn.inst \in {0, Directory[symBTC]}
    /\ (orderReturn.inst = 0 /\ orderReturn.searched # <<>>)
         => orderReturn.outcome \in {ErrorForStatus(f) : f \in FailStatuses}
\* a call for "BTCUSD" has returned the id of BTC after searching BTCUSD and BTC
C23_Witness ==
  /\ orderReturn.params.symbol = symBTCUSDnoSep
  /\ orderReturn.searched = <<symBTCUSDnoSep, symBTC>>
  /\ orderReturn.inst = Directory[symBTC]

\* the lookups of the batch in progress whose search request is in flight
SearchesInFlight == {k \in DOMAIN bcall.lookups : bcall.lookups[k].st = "searching"}
CountOf(reqs, kind) == Cardinality({i \in DOMAIN reqs : reqs[i] = kind})

\* C24: within one resolveInstrumentIds call at most 5 symbol lookups (search
\* requests) are in flight at any moment, however many symbols are passed.
C24_AtMostFiveSearchesInFlight ==
  /\ Cardinality(SearchesInFlight) <= SEARCH_CONCURRENCY
  /\ Len(bcall.lookups) <= SEARCH_CONCURRENCY
  /\ bcall.pc # "search" => SearchesInFlight = {}

\* five searches of a call with more than five symbols to search are in flight
C24_Witness ==
  /\ bcall.op = "ids"
  /\ Len(bcall.uniq) > SEARCH_CONCURRENCY
  /\ Cardinality(SearchesInFlight) = SEARCH_CONCURRENCY

\* the requests of a call hold at most one directory request, sent after
\* every search
OneMetadataAfterSearches(reqs) ==
  /\ CountOf(reqs, "meta") <= 1
  /\ \A i, j \in DOMAIN reqs : reqs[i] = "meta" /\ reqs[j] = "search" => j < i

\* C25: one resolveInstrumentIds call triggers at most one instrument directory
\* request, and only once all its symbol lookups have finished, however many
\* symbols were resolved.
C25_OneMetadataRequestPerBatch ==
  /\ OneMetadataAfterSearches(bcall.reqs)
  /\ OneMetadataAfterSearches(breturn.reqs)
  /\ CountOf(bcall.reqs, "meta") > 0 => SearchesInFlight = {} /\ bcall.pc # "search"
  /\ bcall.pc = "meta" => bcall.start + SEARCH_CONCURRENCY > Len(bcall.uniq)

\* a call that resolved several symbols in two batches returned after one
\* directory request
C25_Witness ==
  /\ breturn.op = "ids"
  /\ Len(breturn.result) >= 3
  /\ CountOf(breturn.reqs, "search") > SEARCH_CONCURRENCY
  /\ CountOf(breturn.reqs, "meta") = 1

\* C26: after a full directory fetch resolveMetadata sends no further directory
\* request until 60 s have elapsed, the calls in between being answered from
\* the id -> metadata cache; concurrent callers share one in-flight fetch.
C26_DirectoryFetchedOncePerTtl ==
  /\ [](metaInflight <= 1)
  /\ [](metaInflight = 1 <=> metadataPending # 0)
  /\ [](\A c \in MetaCallers : mcall[c].pc = "meta" => metaInflight = 1)
  /\ [][metaInflight' > metaInflight =>
          /\ metaInflight = 0
          /\ allInstrumentsFetchedAt # Undefined =>
               now - allInstrumentsFetchedAt[1] >= ALL_INSTRUMENTS_CACHE_TTL_MS]_vars
  /\ [][\A c \in MetaCallers, ids \in MetaIdSets :
          /\ resolveMetadata(c, ids)
          /\ allInstrumentsFetchedAt # Undefined
          /\ now - allInstrumentsFetchedAt[1] < ALL_INSTRUMENTS_CACHE_TTL_MS
          =>
            /\ mreturn'.to = {c}
            /\ mreturn'.src = "cache"
            /\ mreturn'.metas[c] = [i \in ids |-> cachedMeta(idToMeta, i, now)]
            /\ metaInflight' = metaInflight]_vars

\* 30 s after a directory fetch a call asking for an instrument the directory
\* does not hold is answered from the cache, without a request
C26_Witness ==
  /\ allInstrumentsFetchedAt # Undefined
  /\ now - allInstrumentsFetchedAt[1] = MetaTick
  /\ mreturn.src = "cache"
  /\ \E c \in mreturn.to : /\ 3 \in DOMAIN mreturn.metas[c]
                            /\ mreturn.metas[c][3] = Undefined
                            /\ mreturn.metas[c][1] = Some(symAAPL)
  /\ metaInflight = 0

\* the requests of a getQuotes call that returned, as the original statement
\* has them: one rates request, after the searches, unless the symbol list was
\* empty or no symbol resolved
C30_ExactlyOneRatesRequest ==
  breturn.op = "quotes" =>
    /\ CountOf(breturn.reqs, "rates") =
         (IF Len(breturn.symbols) = 0 \/ Len(breturn.result) = 0 THEN 0 ELSE 1)
    /\ \A i, j \in DOMAIN breturn.reqs :
         breturn.reqs[i] = "rates" /\ breturn.reqs[j] = "search" => j < i

\* C30 (amended): getQuotes sends at most one unfiltered rates request per
\* call, after its symbol searches and directory request: exactly one when the
\* rates cache is neither fresh nor being fetched, none when the rates come
\* from the 15 s cache or from a fetch in flight, and none when the symbol list
\* is empty or no symbol resolves.
C30_AtMostOneRatesRequest ==
  /\ [](\A reqs \in {bcall.reqs, breturn.reqs} :
         /\ CountOf(reqs, "rates") <= 1
         /\ \A i, j \in DOMAIN reqs : reqs[i] = "rates" => j <= i)
  /\ [](breturn.op = "quotes" /\ (Len(breturn.symbols) = 0 \/ Len(breturn.result) = 0) =>
         CountOf(breturn.reqs, "rates") = 0)
  /\ [](bcall.pc = "rates" => bcall.op = "quotes" /\ ~Fresh(mdRatesCache, now))
  /\ [][bcall.pc # "rates" /\ bcall'.pc = "rates" =>
          (CountOf(bcall'.reqs, "rates") = 1 <=> mdRatesPending = 0)]_vars
  /\ [][/\ bcall.pc # "rates"
         /\ breturn' # breturn
         /\ breturn'.op = "quotes"
         /\ breturn'.outcome = "ok"
         /\ Len(breturn'.result) > 0
         => /\ Fresh(mdRatesCache, now)
            /\ CountOf(breturn'.reqs, "rates") = 0
            /\ breturn'.quotes = quotesOf(breturn'.result, mdRatesCache.data)]_vars

\* a getQuotes call that searched and resolved several symbols returned their
\* quotes from the rates cache, without a rates request
C30_Witness ==
  /\ breturn.op = "quotes"
  /\ breturn.outcome = "ok"
  /\ Len(breturn.result) >= 2
  /\ CountOf(breturn.reqs, "search") >= 2
  /\ CountOf(breturn.reqs, "rates") = 0
  /\ DOMAIN breturn.quotes # {}

\* C27: getPositions returns at most one Position per broker position id: a
\* raw position repeating a position id already seen is dropped (the first one
\* is the one returned), and the positions without an id are all kept.
C27_OnePositionPerPositionId ==
  treturn.op = "positions" /\ treturn.outcome = "ok" =>
    LET raw == PortfolioTable(treturn.data).positions
        result == treturn.result
        ids == {raw[i].positionId : i \in DOMAIN raw} \ {0}
        withId(id) == {k \in DOMAIN result : result[k].position_id = Some(String(id))}
        firstRaw(id) == CHOOSE i \in DOMAIN raw :
                          /\ raw[i].positionId = id
                          /\ \A j \in DOMAIN raw : raw[j].positionId = id => i <= j
    IN /\ \A k, l \in DOMAIN result :
            result[k].position_id # Undefined /\ result[k].position_id = result[l].position_id
              => k = l
       /\ \A id \in ids :
            /\ Cardinality(withId(id)) = 1
            /\ \A k \in withId(id) : /\ result[k].qty = raw[firstRaw(id)].units
                                     /\ result[k].avg_entry_price = raw[firstRaw(id)].openRate
       /\ Cardinality({k \in DOMAIN result : result[k].position_id = Undefined})
            = Cardinality({i \in DOMAIN raw : raw[i].positionId = 0})

\* getPositions has returned four positions of a portfolio of five: the repeat
\* of position 13 is gone, the two positions without an id are both there
C27_Witness ==
  /\ treturn.op = "positions"
  /\ treturn.outcome = "ok"
  /\ Len(PortfolioTable(treturn.data).positions) = 5
  /\ Len(treturn.result) = 4
  /\ Cardinality({k \in DOMAIN treturn.result : treturn.result[k].position_id = Undefined}) = 2
  /\ \E k \in DOMAIN treturn.result : /\ treturn.result[k].position_id = Some(String(13))
                                       /\ treturn.result[k].qty = 5

\* C28: the event-ingestion job inserts raw events only while the market is
\* open and the kill switch is inactive: a run that began with the market
\* closed, or that reads the kill switch as set, polls no news provider and
\* inserts nothing.
C28_IngestsOnlyWhenOpenAndSafe ==
  /\ [][ingest.pc # "poll" /\ ingest'.pc = "poll" =>
          ingest.openAtStart /\ ~killSwitchActive]_vars
  /\ [][rawEvents' # rawEvents => ingest.openAtStart]_vars

\* C29: every outbound broker call eventually completes: a request that has
\* been sent returns or fails even if the broker never answers, so the
\* in-flight marker of a cache that awaits it is eventually cleared.
C29_RequestEventuallyCompletes ==
  \A c \in Requesters : (rqpc[c] = "fetching") ~> (rqpc[c] # "fetching")

\* C31: every acquire() call eventually returns with the caller admitted: a
\* caller that sleeps (with its timer inside the clock's range) wakes up, and
\* whenever acquire() returns, at once or after its sleep, the time of the
\* return has been recorded as the newest timestamp of the window.
C31_AcquireEventuallyAdmits ==
  /\ \A c \in LiveCallers :
       (rlpc[c] = "sleeping" /\ wakeAt[c] <= RLMaxTime) ~> (rlpc[c] = "idle")
  /\ [](\A c \in RLCallers : rlpc[c] = "sleeping" => wakeAt[c] > 0)
  /\ [][\A c \in RLCallers :
          \/ rlpc[c] = "sleeping" /\ rlpc'[c] = "idle"
          \/ AcquireStart(c) /\ rlpc'[c] = "idle"
          => /\ Len(timestamps') > 0
             /\ timestamps'[Len(timestamps')] = now]_vars

\* the caller that found the window full at time 0 has slept until 60050 and
\* has been admitted: everybody is idle and the window holds its timestamp
C31_Witness ==
  /\ now = windowMs + safetyMarginMs
  /\ \A c \in RLCallers : rlpc[c] = "idle"
  /\ Len(timestamps) > 0
  /\ timestamps[Len(timestamps)] = now

\* C32: a caller that finds the window full is admitted no earlier than
\* oldest + 60,000 ms + 50 ms, oldest being the oldest timestamp of the window
\* when it checked: it is not admitted in that step, its timer is set to that
\* time and stays there, and it is admitted only once the time has come.
C32_FullWindowWaitsForOldest ==
  /\ [][\A c \in RLCallers :
          AcquireStart(c) /\ Len(prune(timestamps, now)) >= maxRequests =>
            /\ rlpc'[c] = "sleeping"
            /\ wakeAt'[c] = prune(timestamps, now)[1] + windowMs + safetyMarginMs
            /\ wakeAt'[c] > now
            /\ timestamps' = prune(timestamps, now)]_vars
  /\ [][\A c \in RLCallers :
          rlpc[c] = "sleeping" =>
            /\ rlpc'[c] = "sleeping" => wakeAt'[c] = wakeAt[c]
            /\ rlpc'[c] = "idle" => /\ now >= wakeAt[c]
                                    /\ timestamps'[Len(timestamps')] = now]_vars

\* a caller that found the window full of requests made at 30000 has been
\* admitted at 90050
C32_Witness ==
  /\ now = RLTick + windowMs + safetyMarginMs
  /\ \A c \in RLCallers : rlpc[c] = "idle"
  /\ Len(timestamps) > 0
  /\ timestamps[Len(timestamps)] = now

\* the callers whose request is sent (fetch is called) in this step
NewlyFetching == {c \in Requesters : rqpc[c] # "fetching" /\ rqpc'[c] = "fetching"}

\* C33: request sends no HTTP request before acquire() has admitted it: the
\* step that sends a request is the one that records its admission, each
\* recorded admission belongs to exactly one request, and the answer to the
\* request, failure included, leaves the recorded timestamps as they are.
C33_FetchOnlyAfterAdmission ==
  /\ [][NewlyFetching # {} =>
          /\ Cardinality(NewlyFetching) = 1
          /\ timestamps' = Append(prune(timestamps, now), now)]_vars
  /\ [][timestamps' # timestamps /\ NewlyFetching = {} =>
          /\ timestamps' = prune(timestamps, now)
          /\ \E c \in Requesters : rqpc[c] = "idle" /\ rqpc'[c] = "sleeping"]_vars
  /\ [][\A c \in Requesters : rqpc[c] = "fetching" /\ rqpc'[c] = "idle" =>
          /\ timestamps' = timestamps
          /\ requestReturn'.outcome # "none"]_vars

\* at time 60050, reached through a sleep in acquire(), a request has failed
\* with PROVIDER_ERROR while the admission recorded at that time is still the
\* newest timestamp of the window
C33_Witness ==
  /\ requestReturn.status = 500
  /\ requestReturn.outcome = "PROVIDER_ERROR"
  /\ now = windowMs + safetyMarginMs
  /\ Len(timestamps) > 0
  /\ timestamps[Len(timestamps)] = now

\* the candidates a symbol gets when the third candidate of a USD symbol is the
\* base with the separator inserted before the suffix
CandidatesAsDescribed(symbol) ==
  IF includes(symbol, SLASH)
  THEN AddCandidate(AddCandidate(<<symbol>>, replace(symbol, SLASH, <<>>)),
                    splitFirst(symbol, SLASH))
  ELSE IF endsWith(symbol, USD)
       THEN LET base == SubSeq(symbol, 1, Len(symbol) - Len(USD))
            IN AddCandidate(AddCandidate(<<symbol>>, base), base \o SLASH \o USD)
       ELSE <<symbol>>

\* C34: the candidates createOrder starts its search with are, for a symbol
\* with '/', the symbol, the symbol without the separator and the prefix before
\* it; for a symbol ending in USD, the symbol, the symbol without the suffix
\* and BASE/USD; for any other symbol, the symbol alone.
C34_CandidatesAsDescribed ==
  ocall.pc = "search" /\ Len(ocall.searched) = 1 /\ ocall.reqs = <<"search">>
    => ocall.cands = CandidatesAsDescribed(toUpperCase(trim(ocall.params.symbol)))

\* the directory request answered in this step succeeded: every instrument of
\* the directory is stored with this step's time
DirectoryStored ==
  \A i \in DOMAIN MetaDirectory :
    i \in DOMAIN idToMeta' /\ idToMeta'[i].updatedAt = now

\* C35: allInstrumentsFetchedAt advances only in a step that stores the
\* directory of a successful request; the step that answers a failed directory
\* request leaves it as it was.
C35_StampOnlyOnSuccessfulFetch ==
  /\ [][allInstrumentsFetchedAt' # allInstrumentsFetchedAt => DirectoryStored]_vars
  /\ [][metaInflight' < metaInflight /\ ~DirectoryStored =>
          allInstrumentsFetchedAt' = allInstrumentsFetchedAt]_vars

\* the record of the createOrder call that starts in this step: the call in
\* progress, or what it returned when it ended in the same step
StartedOrder == IF ocall'.pc # "idle" THEN ocall' ELSE orderReturn'

\* C36: when the last call resolved its symbol to an instrument id, the next
\* call for the same symbol gets the same id from the cache and sends no
\* search request (no time passes in between, so the entry is within its TTL).
C36_SecondResolveFromCache ==
  [][/\ ocall.pc = "idle"
     /\ orderReturn.inst # 0
     /\ ocall'.pc # "idle" \/ (orderReturn' # orderReturn /\ orderReturn'.outcome # "none")
     /\ typeSupported(StartedOrder.params)
     /\ toUpperCase(trim(StartedOrder.params.symbol))
          = toUpperCase(trim(orderReturn.params.symbol))
     => /\ StartedOrder.inst = orderReturn.inst
        /\ "search" \notin Range(StartedOrder.reqs)]_vars

\* C37: the quotes getQuotes returns hold an entry for every symbol of its id
\* map whose instrument id has a rate in the response, two symbols of the same
\* instrument included.
C37_QuoteForEveryResolvedSymbol ==
  breturn.op = "quotes" /\ breturn.outcome = "ok" =>
    \A i \in DOMAIN breturn.result :
      (\E s \in DOMAIN breturn.quotes :
          breturn.quotes[s].instrumentId = breturn.result[i].val)
        => breturn.result[i].key \in DOMAIN breturn.quotes

\* C38: the long_market_value getAccount returns on its portfolio path equals
\* the sum of market_value over the positions getPositions returns for the
\* same portfolio snapshot, metadata and rates.
C38_AccountValueMatchesPositions ==
  treturn.op = "account" /\ treturn.outcome = "ok" /\ treturn.portfolioError = "none" =>
    treturn.result.long_market_value
      = SumMarketValue(parsedPositions([treturn EXCEPT !.op = "positions"]))

\* the step in which closePosition or createOrder returns its Order
MutationSucceeds ==
  \/ tcall.pc = "close" /\ treturn'.op = "close" /\ treturn'.outcome = "ok"
  \/ ocall.pc = "submit" /\ orderReturn'.outcome = "ok"

\* C39: the step in which closePosition or createOrder succeeds leaves the
\* portfolio cache and its pending promise as they were; a getPositions call
\* that starts after such a success while the cached snapshot has not expired
\* works on that snapshot, in which the closed position is still listed, and
\* sends no portfolio request.
C39_MutationKeepsPortfolioCache ==
  /\ [][MutationSucceeds =>
          portfolioCache' = portfolioCache /\ portfolioPending' = portfolioPending]_vars
  /\ [][/\ tcall.pc = "idle"
        /\ tcall'.op = "positions"
        /\ (treturn.op = "close" /\ treturn.outcome = "ok") \/ orderReturn.outcome = "ok"
        /\ portfolioCache.present
        /\ now < portfolioCache.expiresAt
        => /\ tcall'.pc = "gotPortfolio"
           /\ tcall'.data = portfolioCache.data
           /\ "portfolio" \notin Range(tcall'.reqs)
           /\ inflight' = inflight
           /\ portfolioCache' = portfolioCache
           /\ (treturn.op = "close" /\ treturn.outcome = "ok") =>
                \E i \in DOMAIN positionsOf(tcall') :
                  Some(String(getPositionId(positionsOf(tcall')[i]))) = treturn.posId]_vars

\* getPositions works on the cached snapshot of portfolio version 1 without a
\* portfolio request of its own, a createOrder call having returned its Order
C39_Witness ==
  /\ tcall.op = "positions"
  /\ tcall.pc = "gotPortfolio"
  /\ tcall.reqs = <<>>
  /\ tcall.data = 1
  /\ portfolioCache.present
  /\ portfolioCache.data = 1
  /\ ocall.pc = "idle"
  /\ orderReturn.outcome = "ok"

\* the cancelAllOrders call in progress, or else the one that returned last
LastCancelAll == IF acall.pc # "idle" THEN acall ELSE areturn
\* the order ids the requests of one kind were sent for, in the order sent
RECURSIVE IdsOf(_, _)
IdsOf(reqs, kind) ==
  IF reqs = <<>> THEN <<>>
  ELSE IF Head(reqs).kind = kind THEN <<Head(reqs).id>> \o IdsOf(Tail(reqs), kind)
  ELSE IdsOf(Tail(reqs), kind)
\* the answer of this step to the pending cancellation request is a success
CancellationSucceeds ==
  LET id == acall.reqs[Len(acall.reqs)].id
  IN IF acall'.pc = "idle" THEN areturn'.cancelled = Append(acall.cancelled, id)
     ELSE acall'.cancelled = Append(acall.cancelled, id)

\* C40: cancelAllOrders sends its cancellations for the orders of listOrders
\* in list order, the next one only when the one before has been answered; a
\* close-path request is sent only for the order whose open-path request was
\* sent last; the call returns normally only with every order cancelled; and
\* the step in which an order's close-path cancellation fails, its open-path
\* one having failed before, ends the call with that error, the orders before
\* it cancelled and no request ever sent for the orders after it.
C40_CancelAllStopsAtFirstFailure ==
  /\ [](LET call == LastCancelAll
            opened == IdsOf(call.reqs, "cancelOpen")
        IN /\ Len(opened) <= Len(call.orders)
           /\ opened = SubSeq(call.orders, 1, Len(opened))
           /\ \A i \in DOMAIN call.reqs :
                call.reqs[i].kind = "cancelClose" =>
                  i > 1 /\ call.reqs[i - 1] = Request("cancelOpen", call.reqs[i].id)
           /\ \A i \in DOMAIN call.cancelled : call.cancelled[i] \in Range(opened)
           /\ acall.pc \in {"cancelOpen", "cancelClose"} =>
                /\ Len(opened) = acall.next
                /\ acall.cancelled = SubSeq(acall.orders, 1, acall.next - 1)
                /\ acall.reqs[Len(acall.reqs)].id = acall.orders[acall.next]
           /\ (areturn.outcome = "ok") => areturn.cancelled = areturn.orders)
  /\ [][acall.pc = "cancelClose" /\ acall' # acall /\ ~CancellationSucceeds =>
          /\ acall'.pc = "idle"
          /\ areturn'.outcome \in {ErrorForStatus(status) : status \in FailStatuses}
          /\ areturn'.reqs = acall.reqs
          /\ areturn'.cancelled = SubSeq(acall.orders, 1, acall.next - 1)
          /\ IdsOf(areturn'.reqs, "cancelOpen") = SubSeq(acall.orders, 1, acall.next)]_vars

\* the call has thrown PROVIDER_ERROR at the second of three orders, listed as
\* 22, 21, 23: order 22 is cancelled (on the close path), order 21 failed on
\* both paths, and nothing was sent for order 23
C40_Witness ==
  /\ areturn.outcome = "PROVIDER_ERROR"
  /\ areturn.orders = <<22, 21, 23>>
  /\ areturn.cancelled = <<22>>
  /\ IdsOf(areturn.reqs, "cancelOpen") = <<22, 21>>
  /\ IdsOf(areturn.reqs, "cancelClose") = <<22, 21>>
====
